---- MODULE Spec2Model ----
(***************************************************************************)
(* Signalling relay of rainman456/vidoechat: the status-tracking server    *)
(* of src/main.go (lines 262-947).                                         *)
(*                                                                         *)
(* Every connection has a receive-loop goroutine.  A handler is cut into   *)
(* steps at the places where the code holds no lock: one step is one       *)
(* locked section (clientsMu, roomsMu, or roomsMu nested in clientsMu) or  *)
(* one WriteJSON.  The first step of a handler includes reading the        *)
(* message.  todo[c] is the list of steps the goroutine of c still has to  *)
(* run before it reads its next message.  The `go sendMessage(...)`        *)
(* goroutines of handleInitiateCall are the elements of pending.           *)
(*                                                                         *)
(* broadcastPeerList changes no registry state: it takes a snapshot under  *)
(* clientsMu.RLock and starts one `go sendMessage(conn, peer_list)` per    *)
(* client.  Every registered client is in the snapshot taken by its own    *)
(* handleConnections, and such a goroutine may run at any later time, so   *)
(* for every registered client a peer-list write may be attempted at any   *)
(* time: it changes the state only if it fails (PresenceFail).  A call of  *)
(* broadcastPeerList is the label "bcast" in todo; it is passed at once    *)
(* unless clientsMu is locked for good, in which case the goroutine stays  *)
(* there.                                                                  *)
(*                                                                         *)
(* Time is left out: any registered client may be found silent by the      *)
(* timeout checker.                                                        *)
(***************************************************************************)
EXTENDS Integers, Sequences, FiniteSets, TLC

Conn == {"a", "b", "c", "d"}

\* Connections are accepted in this order (their names are interchangeable).
ConnOrder == [c \in Conn |-> CASE c = "a" -> 1 [] c = "b" -> 2 [] c = "c" -> 3 [] OTHER -> 4]

nil == "nil"

StatusIdle == "idle"

StatusCalling == "calling"

StatusRinging == "ringing"

StatusInCall == "in-call"

\* Bounds of the model: connections accepted, events (messages received, transports
\* lost, clients timed out), uuids generated.
MaxConns == 3

MaxEvents == 3

MaxUuid == 1

\* Values a client may put in the fields of an inbound message.
ClientCallIds == {"k1"}

DataIn == {"", "d1"}

ReasonIn == {"r1"}

StatusIn == {"", "idle", "calling", "ringing", "in-call", "away"}

Uuid(i) == "u" \o ToString(i)

VARIABLES
    alive,        \* alive[c]: the transport of c is open (writes to c work)
    phase,        \* phase[c]: "new", "loop" (receive loop), "td" (deferred cleanup)
    clients,      \* keys of the map clients
    clientsByID,  \* keys of the map clientsByID (the ID of connection c is c)
    info,         \* info[c]: the ClientInfo struct of c (outlives its map entries)
    rooms,        \* the map rooms: call id -> Room
    clientsMuHeld,\* clientsMu was left locked by a handler that returned
    crashed,      \* the process died of a nil dereference
    todo,         \* todo[c]: remaining steps of the goroutine of c
    loc,          \* loc[c]: locals of the running handler of c
    pending,      \* the `go sendMessage(conn, msg)` goroutines not yet run (call messages)
    wrote,        \* the messages written to connections so far
    tdSnap,       \* tdSnap[c]: the call of c when its receive loop ended
    nev,          \* messages received, transports lost and clients timed out so far
    ngen          \* uuids generated so far

vars == <<alive, phase, clients, clientsByID, info, rooms, clientsMuHeld, crashed,
          todo, loc, pending, wrote, tdSnap, nev, ngen>>

----------------------------------------------------------------------------
\* Messages (type Message)

Message(type, callId, data, callerId, reason, peerId, status) ==
    [type |-> type, callId |-> callId, data |-> data, callerId |-> callerId,
     reason |-> reason, peerId |-> peerId, status |-> status]

ErrorMsg(text, callId) == Message("error", callId, text, "", "", "", "")

\* Call ids a client can name: its own choices and the uuids the server has generated.
CallIdIn == {""} \cup ClientCallIds \cup {Uuid(i) : i \in 1..ngen}

----------------------------------------------------------------------------
\* Data

ClientInfo(status, callId, isCaller) ==
    [Status |-> status, CallID |-> callId, IsCaller |-> isCaller]

Room(id, caller, callee) ==
    [ID |-> id, Participants |-> {caller, callee}, CallerConn |-> caller, CalleeConn |-> callee]

NoLoc == [callID |-> "", reason |-> "", otherConn |-> nil, outq |-> <<>>]

\* A room that is not created yet.
PutRoomNone(rs, id, r) == rs

PutRoom(rs, id, r) == [k \in DOMAIN rs \cup {id} |-> IF k = id THEN r ELSE rs[k]]

\* A delete that leaves the map as it is.
DelRoomKeep(rs, id) == rs

DelRoom(rs, id) == [k \in DOMAIN rs \ {id} |-> rs[k]]

\* A reset of the status alone.
resetStatusOnly(inf, c) == [inf EXCEPT ![c].Status = StatusIdle]

resetClientState(inf, c) == [inf EXCEPT ![c] = ClientInfo(StatusIdle, "", FALSE)]

Init ==
    /\ alive = [c \in Conn |-> FALSE]
    /\ phase = [c \in Conn |-> "new"]
    /\ clients = {}
    /\ clientsByID = {}
    /\ info = [c \in Conn |-> ClientInfo(StatusIdle, "", FALSE)]
    /\ rooms = << >>
    /\ clientsMuHeld = FALSE
    /\ crashed = FALSE
    /\ todo = [c \in Conn |-> <<>>]
    /\ loc = [c \in Conn |-> NoLoc]
    /\ pending = {}
    /\ wrote = {}
    /\ tdSnap = [c \in Conn |-> nil]
    /\ nev = 0
    /\ ngen = 0

----------------------------------------------------------------------------
\* Steps of a goroutine

At(c, label) == ~crashed /\ todo[c] # <<>> /\ Head(todo[c]) = label

\* The receive loop of c reads a message: frames that arrived before the transport
\* was lost are still read from the buffer.
Reads(c) == ~crashed /\ phase[c] = "loop" /\ todo[c] = <<>> /\ nev < MaxEvents

Out(to, msg) == [to |-> to, msg |-> msg]

\* wrote keeps the messages that one client's action makes the server write to
\* another client, not the replies to the sender.
Logged == {"offer", "answer", "call_rejected", "peer_disconnected", "ice-candidate"}

Log(o) == IF o.msg.type \in Logged THEN {o} ELSE {}

\* The keys of clients after a failed write to `to` (sendMessage, error branch).
RemoveClient(set, to) == set \ {to}

\* The goroutine of c goes on with steps t and locals l; locals are dead once only
\* steps that use none are left.
Cont(c, t0, l) ==
    LET t == IF t0 # <<>> /\ Head(t0) = "bcast" /\ ~clientsMuHeld THEN Tail(t0) ELSE t0
        live == \E i \in 1..Len(t) : t[i] \notin {"bcast", "td3"}
    IN
    /\ todo' = [todo EXCEPT ![c] = t]
    /\ loc' = [loc EXCEPT ![c] = IF live THEN l ELSE NoLoc]

\* handleConnections: register the connection, broadcast and start the loop.
Connect(c) ==
    /\ ~crashed /\ ~clientsMuHeld
    /\ phase[c] = "new"
    /\ ConnOrder[c] <= MaxConns
    /\ \A d \in Conn : ConnOrder[d] < ConnOrder[c] => phase[d] # "new"
    /\ phase' = [phase EXCEPT ![c] = "loop"]
    /\ alive' = [alive EXCEPT ![c] = TRUE]
    /\ info' = [info EXCEPT ![c] = ClientInfo(StatusIdle, "", FALSE)]
    /\ clients' = clients \cup {c}
    /\ clientsByID' = clientsByID \cup {c}
    /\ UNCHANGED <<rooms, clientsMuHeld, crashed, todo, loc, pending, wrote, tdSnap,
                   nev, ngen>>

\* The peer closes or loses its transport.
Disconnect(c) ==
    /\ ~crashed
    /\ phase[c] = "loop" /\ alive[c]
    /\ nev < MaxEvents
    /\ nev' = nev + 1
    /\ alive' = [alive EXCEPT ![c] = FALSE]
    /\ UNCHANGED <<phase, clients, clientsByID, info, rooms, clientsMuHeld, crashed,
                   todo, loc, pending, wrote, tdSnap, ngen>>

\* The other participant of the room of c's call, nil if c is in no such room.
PeerOf(c) ==
    LET k == info[c].CallID IN
    IF k \in DOMAIN rooms /\ rooms[k].CallerConn = c THEN rooms[k].CalleeConn
    ELSE IF k \in DOMAIN rooms /\ rooms[k].CalleeConn = c THEN rooms[k].CallerConn
    ELSE nil

\* c is in-call with the registered client y.
InCallTogether(c, y) ==
    /\ y # nil /\ y \in clients
    /\ info[c].Status = StatusInCall /\ info[y].Status = StatusInCall
    /\ info[c].CallID = info[y].CallID

\* handleClient: NextReader fails, the deferred cleanup starts.
ReadError(c) ==
    /\ ~crashed
    /\ phase[c] = "loop" /\ todo[c] = <<>> /\ ~alive[c]
    /\ phase' = [phase EXCEPT ![c] = "td"]
    /\ todo' = [todo EXCEPT ![c] = <<"td1">>]
    /\ tdSnap' = [tdSnap EXCEPT ![c] =
                    [Status |-> info[c].Status, CallID |-> info[c].CallID,
                     peer |-> PeerOf(c), together |-> InCallTogether(c, PeerOf(c))]]
    /\ UNCHANGED <<alive, clients, clientsByID, info, rooms, clientsMuHeld, crashed,
                   loc, pending, wrote, nev, ngen>>

\* sendMessage(o.to, o.msg) called by the goroutine of c; rest: the steps after it.
SendFrom(c, o, rest, l) ==
    \/ /\ alive[o.to]
       /\ wrote' = wrote \cup Log(o)
       /\ Cont(c, rest, l)
       /\ UNCHANGED <<clients, clientsByID>>
    \/ /\ ~alive[o.to] /\ ~clientsMuHeld
       /\ clients' = RemoveClient(clients, o.to)
       /\ clientsByID' = IF o.to \in clients THEN clientsByID \ {o.to} ELSE clientsByID
       /\ Cont(c, IF o.to \in clients THEN <<"bcast">> \o rest ELSE rest, l)
       /\ UNCHANGED wrote

\* sendMessage for the head of the handler's queue of messages.
Send(c) ==
    /\ At(c, "send")
    /\ SendFrom(c, Head(loc[c].outq), Tail(todo[c]), [loc[c] EXCEPT !.outq = Tail(@)])
    /\ UNCHANGED <<alive, phase, info, rooms, clientsMuHeld, crashed, pending,
                   tdSnap, nev, ngen>>

\* A `go sendMessage(conn, msg)` goroutine of handleInitiateCall runs.
AsyncSend ==
    /\ ~crashed
    /\ \E o \in pending :
        \/ /\ alive[o.to]
           /\ wrote' = wrote \cup Log(o)
           /\ pending' = pending \ {o}
           /\ UNCHANGED <<clients, clientsByID>>
        \/ /\ ~alive[o.to] /\ ~clientsMuHeld
           /\ clients' = RemoveClient(clients, o.to)
           /\ clientsByID' = IF o.to \in clients THEN clientsByID \ {o.to} ELSE clientsByID
           /\ pending' = pending \ {o}
           /\ UNCHANGED wrote
    /\ UNCHANGED <<alive, phase, info, rooms, clientsMuHeld, crashed, todo, loc,
                   tdSnap, nev, ngen>>

\* A `go sendMessage(conn, peer_list)` goroutine of broadcastPeerList fails to write:
\* it removes the client and broadcasts.  (One that writes changes nothing.)
PresenceFail(t) ==
    /\ ~crashed /\ ~clientsMuHeld
    /\ ~alive[t] /\ t \in clients
    /\ clients' = RemoveClient(clients, t)
    /\ clientsByID' = clientsByID \ {t}
    /\ UNCHANGED <<alive, phase, info, rooms, clientsMuHeld, crashed, todo, loc,
                   pending, wrote, tdSnap, nev, ngen>>

\* handleClient: "ping" is answered with "pong", an unknown type with an error.
Reply(c) ==
    /\ Reads(c)
    /\ nev' = nev + 1
    /\ \E m \in {Message("pong", "", "", "", "", "", ""), ErrorMsg("Unknown message type", "")} :
          SendFrom(c, Out(c, m), <<>>, NoLoc)
    /\ UNCHANGED <<alive, phase, info, rooms, clientsMuHeld, crashed, pending,
                   tdSnap, ngen>>

----------------------------------------------------------------------------
\* Handlers

\* A scan that does not skip the caller itself.
IdlePeersWithSelf(c) == {y \in clientsByID : info[y].Status = StatusIdle}

\* A scan that does not look at the status of the client it stops at.
IdlePeersAnyStatus(c) == {y \in clientsByID : y # c}

\* The clients handleInitiateCall's scan of clientsByID can stop at.
IdlePeers(c) == {y \in clientsByID : y # c /\ info[y].Status = StatusIdle}

\* The offer handleInitiateCall prepares for the callee.
OfferMsg(callID, data, caller) == Message("offer", callID, data, caller, "", caller, "")

\* A match that leaves the callee's state as it was.
MatchedCallerOnly(c, callee, callID) ==
    [info EXCEPT ![c] = ClientInfo(StatusCalling, callID, TRUE)]

\* The client states after handleInitiateCall has matched caller c with callee.
Matched(c, callee, callID) ==
    [info EXCEPT ![c] = ClientInfo(StatusCalling, callID, TRUE),
                 ![callee] = ClientInfo(StatusRinging, callID, FALSE)]

\* A check that takes only a client in a call for busy.
CallerBusyInCallOnly(c) == info[c].Status = StatusInCall

\* handleInitiateCall's check of the caller's state.
CallerBusy(c) == info[c].Status # StatusIdle

\* handleInitiateCall for a message with callId k and data: the message is read,
\* then the section under clientsMu (with roomsMu nested) runs; the two sendMessage
\* goroutines are started after it.
handleInitiateCall(c, k, data) ==
    LET callID == IF k = "" THEN Uuid(ngen + 1) ELSE k
        reply(text) == [NoLoc EXCEPT !.outq = <<Out(c, ErrorMsg(text, k))>>]
    IN
    /\ Reads(c) /\ ~clientsMuHeld
    /\ nev' = nev + 1
    /\ \/ /\ CallerBusy(c)
          /\ Cont(c, <<"send">>, reply("Already in a call"))
          /\ UNCHANGED <<info, rooms, pending, clientsMuHeld, ngen>>
       \/ /\ ~CallerBusy(c) /\ data = ""
          \* returns without clientsMu.Unlock()
          /\ clientsMuHeld' = TRUE
          /\ Cont(c, <<"send">>, reply("Missing offer data"))
          /\ UNCHANGED <<info, rooms, pending, ngen>>
       \/ /\ ~CallerBusy(c) /\ data # "" /\ IdlePeers(c) = {}
          /\ Cont(c, <<"send">>, reply("No available peers"))
          /\ UNCHANGED <<info, rooms, pending, clientsMuHeld, ngen>>
       \/ /\ ~CallerBusy(c) /\ data # ""
          /\ k = "" => ngen < MaxUuid
          /\ \E callee \in IdlePeers(c) :
               /\ info' = Matched(c, callee, callID)
               /\ rooms' = PutRoom(rooms, callID, Room(callID, c, callee))
               /\ pending' = pending \cup
                    {Out(callee, OfferMsg(callID, data, c)),
                     Out(c, Message("call_initiated", callID, "", "", "", callee, ""))}
          /\ ngen' = IF k = "" THEN ngen + 1 ELSE ngen
          /\ Cont(c, <<"bcast">>, NoLoc)
          /\ UNCHANGED clientsMuHeld
    /\ UNCHANGED <<alive, phase, clients, clientsByID, crashed, wrote, tdSnap>>

\* handleClient dispatches an "initiate_call" message of c.
InitiateCall(c) ==
    \E k \in {""} \cup ClientCallIds, data \in DataIn : handleInitiateCall(c, k, data)

\* handlePresenceUpdate
PresenceUpdate(c) ==
    /\ Reads(c)
    /\ nev' = nev + 1
    /\ \E status \in StatusIn :
        IF status = "" THEN UNCHANGED <<info, todo, loc>>
        ELSE /\ ~clientsMuHeld
             /\ info' = [info EXCEPT ![c].Status = status]
             /\ Cont(c, <<"bcast">>, NoLoc)
    /\ UNCHANGED <<alive, phase, clients, clientsByID, rooms, clientsMuHeld, crashed,
                   pending, wrote, tdSnap, ngen>>

\* The snapshot broadcastPeerList takes under clientsMu.RLock: the peer list made of
\* clientsByID, and the connections made of clients, to each of which it starts a
\* `go sendMessage(conn, peer_list)`.
peers == {[ID |-> c, Status |-> info[c].Status] : c \in clientsByID}

conns == clients

\* A register that leaves the status as it is.
RegisteredKeep(c) == info

\* The client states after handleRegister's section under clientsMu.
Registered(c) == [info EXCEPT ![c].Status = StatusIdle]

\* handleRegister: the section under clientsMu; the reply and the broadcast follow.
Register(c) ==
    /\ Reads(c) /\ ~clientsMuHeld
    /\ nev' = nev + 1
    /\ info' = Registered(c)
    /\ Cont(c, <<"send", "bcast">>,
            [NoLoc EXCEPT !.outq = <<Out(c, Message("register_success", "", "", "", "", c, ""))>>])
    /\ UNCHANGED <<alive, phase, clients, clientsByID, rooms, clientsMuHeld, crashed,
                   pending, wrote, tdSnap, ngen>>

\* The room after handleAcceptCall has put the accepting client in it.
Accepted(room, callee) ==
    [room EXCEPT !.Participants = @ \cup {callee}, !.CalleeConn = callee]

\* An answer that has lost the payload.
AnswerMsgNoData(k, data, callee) == Message("answer", k, "", "", "", callee, "")

\* The answer handleAcceptCall forwards to the caller.
AnswerMsg(k, data, callee) == Message("answer", k, data, "", "", callee, "")

\* A check of the caller's CallID alone.
CallNotFoundIdOnly(caller, k) == info[caller].CallID # k

\* handleAcceptCall's check that the caller is calling with the call id of the message.
CallNotFound(caller, k) == info[caller].CallID # k \/ info[caller].Status # StatusCalling

\* handleAcceptCall for a message with callId k, data and callerId caller: the
\* message is read, then the section under clientsMu (with roomsMu nested) runs.
handleAcceptCall(c, k, data, caller) ==
    /\ Reads(c) /\ ~clientsMuHeld
    /\ nev' = nev + 1
    /\ LET err(to, text) == Out(to, ErrorMsg(text, k)) IN
        IF caller \notin clientsByID THEN
           /\ Cont(c, <<"send">>, [NoLoc EXCEPT !.outq = <<err(c, "Caller not found")>>])
           /\ UNCHANGED <<info, rooms>>
        ELSE IF CallNotFound(caller, k) THEN
           /\ Cont(c, <<"send">>, [NoLoc EXCEPT !.outq = <<err(c, "Call not found or caller not in 'calling' state.")>>])
           /\ UNCHANGED <<info, rooms>>
        ELSE IF k \notin DOMAIN rooms THEN
           /\ Cont(c, <<"send", "send">>,
                   [NoLoc EXCEPT !.outq = <<err(c, "Room for call not found."),
                                           err(caller, "Room for call disappeared before acceptance.")>>])
           /\ UNCHANGED <<info, rooms>>
        ELSE
           /\ rooms' = [rooms EXCEPT ![k] = Accepted(@, c)]
           /\ info' = [x \in Conn |->
                         IF x = c \/ x = caller THEN [info[x] EXCEPT !.Status = StatusInCall]
                         ELSE info[x]]
           /\ Cont(c, <<"send", "bcast">>,
                   [NoLoc EXCEPT !.outq = <<Out(caller, AnswerMsg(k, data, c))>>])
    /\ UNCHANGED <<alive, phase, clients, clientsByID, clientsMuHeld, crashed,
                   pending, wrote, tdSnap, ngen>>

\* handleClient dispatches an "accept_call" message of c.
AcceptCall(c) ==
    \E k \in CallIdIn, data \in DataIn \ {""}, caller \in Conn :
        handleAcceptCall(c, k, data, caller)

\* handleOffer: the message is read, the room lookup under roomsMu.RLock picks
\* the recipient.
Offer(c) ==
    /\ Reads(c)
    /\ nev' = nev + 1
    /\ \E k \in CallIdIn, data \in DataIn \ {""} :
        LET room == rooms[k]
            recipient == IF c = room.CallerConn THEN room.CalleeConn ELSE room.CallerConn
        IN
        IF k \notin DOMAIN rooms THEN UNCHANGED <<todo, loc>>
        ELSE Cont(c, <<"send">>,
                  [NoLoc EXCEPT !.outq =
                      <<Out(recipient, Message("offer", k, data, "", "", "", ""))>>])
    /\ UNCHANGED <<alive, phase, clients, clientsByID, info, rooms, clientsMuHeld, crashed,
                   pending, wrote, tdSnap, ngen>>

\* The entries handleRejectCall's scan of clientsByID can stop at.
CallersOf(callId) == {x \in clientsByID : info[x].CallID = callId /\ info[x].IsCaller}

\* handleRejectCall for a message with callId k and reason: the message is read,
\* then the section under clientsMu runs.
handleRejectCall(c, k, reason) ==
    /\ Reads(c) /\ ~clientsMuHeld
    /\ nev' = nev + 1
    /\ LET after == <<"rjroom", "bcast">>
            l == [NoLoc EXCEPT !.callID = k]
        IN
        \/ /\ CallersOf(k) = {}
           /\ info' = resetClientState(info, c)
           /\ Cont(c, after, l)
        \/ \E x \in CallersOf(k) :
             IF info[x].Status = StatusCalling THEN
                /\ info' = resetClientState(resetClientState(info, x), c)
                /\ Cont(c, <<"send">> \o after,
                        [l EXCEPT !.outq =
                           <<Out(x, Message("call_rejected", k, "", "", reason, c, ""))>>])
             ELSE
                /\ info' = resetClientState(info, c)
                /\ Cont(c, after, l)
    /\ UNCHANGED <<alive, phase, clients, clientsByID, rooms, clientsMuHeld, crashed,
                   pending, wrote, tdSnap, ngen>>

\* handleClient dispatches a "reject_call" message of c.
RejectCall(c) == \E k \in CallIdIn, reason \in ReasonIn : handleRejectCall(c, k, reason)

\* handleRejectCall, the section under roomsMu.
RejectRoom(c) ==
    /\ At(c, "rjroom")
    /\ rooms' = DelRoom(rooms, loc[c].callID)
    /\ Cont(c, Tail(todo[c]), loc[c])
    /\ UNCHANGED <<alive, phase, clients, clientsByID, info, clientsMuHeld, crashed,
                   pending, wrote, tdSnap, nev, ngen>>

\* handleICECandidate for a message with callId k and data: the message is read and
\* msg.CallID is compared with sender.CallID (no lock held).
handleICECandidate(c, k, data) ==
    /\ Reads(c)
    /\ nev' = nev + 1
    /\ IF info[c].CallID # k THEN UNCHANGED <<todo, loc>>
       ELSE Cont(c, <<"ice1">>,
                 [NoLoc EXCEPT !.callID = k,
                               !.outq = <<Out(nil, Message("ice-candidate", k, data, "", "", c, ""))>>])
    /\ UNCHANGED <<alive, phase, clients, clientsByID, info, rooms, clientsMuHeld, crashed,
                   pending, wrote, tdSnap, ngen>>

\* handleClient dispatches an "ice-candidate" message of c.
IceCheck(c) == \E k \in CallIdIn, data \in DataIn \ {""} : handleICECandidate(c, k, data)

\* A choice that takes every sender that is not the caller for the callee.
IceRecipientUnchecked(c, room) ==
    IF room.CallerConn = c THEN room.CalleeConn ELSE room.CallerConn

\* The recipient handleICECandidate picks: the other side of the room, nil when the
\* sender is neither its CallerConn nor its CalleeConn.
IceRecipient(c, room) ==
    IF room.CallerConn = c THEN room.CalleeConn
    ELSE IF room.CalleeConn = c THEN room.CallerConn
    ELSE nil

\* handleICECandidate: the room lookup under roomsMu.RLock picks the recipient.
IceRoute(c) ==
    LET k == loc[c].callID
        recipient == IceRecipient(c, rooms[k])
    IN
    /\ At(c, "ice1")
    /\ IF k \notin DOMAIN rooms THEN Cont(c, <<>>, NoLoc)
       ELSE IF recipient = nil THEN Cont(c, <<>>, NoLoc)
       ELSE Cont(c, <<"send">>,
                 [loc[c] EXCEPT !.outq = <<Out(recipient, Head(loc[c].outq).msg)>>])
    /\ UNCHANGED <<alive, phase, clients, clientsByID, info, rooms, clientsMuHeld, crashed,
                   pending, wrote, tdSnap, nev, ngen>>

\* The other side of the call as handleHangup finds it under roomsMu.
OtherConn(c, callID) ==
    IF callID \notin DOMAIN rooms THEN nil
    ELSE IF rooms[callID].CallerConn = c THEN rooms[callID].CalleeConn
    ELSE IF rooms[callID].CalleeConn = c THEN rooms[callID].CallerConn
    ELSE nil

\* handleHangup, the section under roomsMu: find the other side, delete the room.
HangupRoomStep(c, callID, reason, rest) ==
    /\ rooms' = DelRoom(rooms, callID)
    /\ Cont(c, rest, [NoLoc EXCEPT !.callID = callID, !.reason = reason,
                                   !.otherConn = OtherConn(c, callID)])

\* handleHangup called by handleClient for a "hangup" message with callId k.
HangupCall(c, k) ==
    /\ Reads(c)
    /\ nev' = nev + 1
    /\ HangupRoomStep(c, k, "hangup", <<"h2", "h3", "bcast">>)
    /\ UNCHANGED <<alive, phase, clients, clientsByID, info, clientsMuHeld, crashed,
                   pending, wrote, tdSnap, ngen>>

\* handleClient dispatches a "hangup" message of c.
Hangup(c) == \E k \in CallIdIn : HangupCall(c, k)

\* handleHangup called by the deferred cleanup.
HangupRoom(c) ==
    /\ At(c, "h1")
    /\ HangupRoomStep(c, loc[c].callID, loc[c].reason, Tail(todo[c]))
    /\ UNCHANGED <<alive, phase, clients, clientsByID, info, clientsMuHeld, crashed,
                   pending, wrote, tdSnap, nev, ngen>>

\* A reset that forgets the other side of the call.
HangupResetSelfOnly(c, otherConn) ==
    IF c \in clients THEN resetClientState(info, c) ELSE info

\* The client states after handleHangup's section under clientsMu.
HangupReset(c, otherConn) ==
    LET i1 == IF otherConn # nil /\ otherConn \in clients
              THEN resetClientState(info, otherConn) ELSE info
    IN IF c \in clients THEN resetClientState(i1, c) ELSE i1

\* handleHangup, the section under clientsMu: reset both sides.
HangupClients(c) ==
    LET otherConn == loc[c].otherConn
        shouldSendMessageToOther == otherConn # nil /\ otherConn \in clients
        msg == Message("peer_disconnected", loc[c].callID, "", "", loc[c].reason,
                       IF c \in clients THEN c ELSE "", "")
        rest == Tail(todo[c])
    IN
    /\ At(c, "h2") /\ ~clientsMuHeld
    /\ info' = HangupReset(c, otherConn)
    /\ IF shouldSendMessageToOther
       THEN Cont(c, rest, [loc[c] EXCEPT !.outq = <<Out(otherConn, msg)>>])
       ELSE Cont(c, Tail(rest), NoLoc)
    /\ UNCHANGED <<alive, phase, clients, clientsByID, rooms, clientsMuHeld, crashed,
                   pending, wrote, tdSnap, nev, ngen>>

\* handleHangup after the locks: the log line reads clients[otherConn].ID, then
\* sendMessage(otherConn, ...).
HangupNotify(c) ==
    /\ At(c, "h3")
    /\ IF loc[c].otherConn \notin clients THEN
          \* nil pointer dereference: the process dies
          /\ crashed' = TRUE
          /\ UNCHANGED <<clients, clientsByID, todo, loc, wrote>>
       ELSE
          /\ SendFrom(c, Head(loc[c].outq), Tail(todo[c]), NoLoc)
          /\ UNCHANGED crashed
    /\ UNCHANGED <<alive, phase, info, rooms, clientsMuHeld, pending, tdSnap,
                   nev, ngen>>

----------------------------------------------------------------------------
\* Deferred cleanup of handleClient

\* The call the cleanup hangs up: read from the map under clientsMu.RLock.
CallIDToHangup(c) ==
    IF c \in clients /\ info[c].Status \in {StatusInCall, StatusCalling, StatusRinging}
    THEN info[c].CallID ELSE ""

\* Step 1: decide whether a hangup is needed.
TeardownCheck(c) ==
    /\ At(c, "td1") /\ ~clientsMuHeld
    /\ IF CallIDToHangup(c) # "" THEN
          Cont(c, <<"h1", "h2", "h3", "bcast", "td3", "bcast">>,
               [NoLoc EXCEPT !.callID = CallIDToHangup(c), !.reason = "disconnected"])
       ELSE Cont(c, <<"td3", "bcast">>, NoLoc)
    /\ UNCHANGED <<alive, phase, clients, clientsByID, info, rooms, clientsMuHeld, crashed,
                   pending, wrote, tdSnap, nev, ngen>>

\* Step 3: remove the client from the maps under clientsMu; step 4 closes the connection.
TeardownRemove(c) ==
    /\ At(c, "td3") /\ ~clientsMuHeld
    /\ clients' = clients \ {c}
    /\ clientsByID' = clientsByID \ {c}
    /\ alive' = [alive EXCEPT ![c] = FALSE]
    /\ Cont(c, Tail(todo[c]), loc[c])
    /\ UNCHANGED <<phase, info, rooms, clientsMuHeld, crashed,
                   pending, wrote, tdSnap, nev, ngen>>

----------------------------------------------------------------------------
\* checkClientTimeouts

\* The tick finds the clients of S silent for two minutes, closes and removes them,
\* then broadcasts.
Evict ==
    /\ ~crashed /\ ~clientsMuHeld
    /\ \E S \in SUBSET clients :
        /\ S # {}
        /\ nev + Cardinality(S) <= MaxEvents
        /\ nev' = nev + Cardinality(S)
        /\ alive' = [c \in Conn |-> IF c \in S THEN FALSE ELSE alive[c]]
        /\ clients' = clients \ S
        /\ clientsByID' = clientsByID \ S
    /\ UNCHANGED <<phase, info, rooms, clientsMuHeld, crashed, todo, loc,
                   pending, wrote, tdSnap, ngen>>

----------------------------------------------------------------------------

Next ==
    \/ \E c \in Conn : Connect(c)
    \/ \E c \in Conn : Disconnect(c)
    \/ \E c \in Conn : ReadError(c)
    \/ \E c \in Conn : Send(c)
    \/ AsyncSend
    \/ \E c \in Conn : PresenceFail(c)
    \/ \E c \in Conn : Reply(c)
    \/ \E c \in Conn : InitiateCall(c)
    \/ \E c \in Conn : PresenceUpdate(c)
    \/ \E c \in Conn : Register(c)
    \/ \E c \in Conn : AcceptCall(c)
    \/ \E c \in Conn : Offer(c)
    \/ \E c \in Conn : RejectCall(c)
    \/ \E c \in Conn : RejectRoom(c)
    \/ \E c \in Conn : IceCheck(c)
    \/ \E c \in Conn : IceRoute(c)
    \/ \E c \in Conn : Hangup(c)
    \/ \E c \in Conn : HangupRoom(c)
    \/ \E c \in Conn : HangupClients(c)
    \/ \E c \in Conn : HangupNotify(c)
    \/ \E c \in Conn : TeardownCheck(c)
    \/ \E c \in Conn : TeardownRemove(c)
    \/ Evict

Spec == Init /\ [][Next]_vars

----------------------------------------------------------------------------
\* Concurrent initiate_call requests: every connection has been accepted and is
\* idle, and the only messages the clients send are initiate_call.

InitRace ==
    /\ alive = [c \in Conn |-> TRUE]
    /\ phase = [c \in Conn |-> "loop"]
    /\ clients = Conn
    /\ clientsByID = Conn
    /\ info = [c \in Conn |-> ClientInfo(StatusIdle, "", FALSE)]
    /\ rooms = << >>
    /\ clientsMuHeld = FALSE
    /\ crashed = FALSE
    /\ todo = [c \in Conn |-> <<>>]
    /\ loc = [c \in Conn |-> NoLoc]
    /\ pending = {}
    /\ wrote = {}
    /\ tdSnap = [c \in Conn |-> nil]
    /\ nev = 0
    /\ ngen = 0

NextRace ==
    \/ \E c \in Conn : InitiateCall(c)
    \/ \E c \in Conn : Send(c)
    \/ AsyncSend

SpecRace == InitRace /\ [][NextRace]_vars

----------------------------------------------------------------------------
\* A call in progress: a has called b with the call id "k1" of its own choice
\* (data "d1"), b has accepted, the offer and the answer have been written, and c
\* and d are connected and idle.  Events are counted from here.  The clients send
\* ice-candidate, hangup and initiate_call.

InitCall ==
    /\ alive = [c \in Conn |-> TRUE]
    /\ phase = [c \in Conn |-> "loop"]
    /\ clients = Conn
    /\ clientsByID = Conn
    /\ info = [c \in Conn |->
                 CASE c = "a" -> ClientInfo(StatusInCall, "k1", TRUE)
                   [] c = "b" -> ClientInfo(StatusInCall, "k1", FALSE)
                   [] OTHER -> ClientInfo(StatusIdle, "", FALSE)]
    /\ rooms = PutRoom(<< >>, "k1", Accepted(Room("k1", "a", "b"), "b"))
    /\ clientsMuHeld = FALSE
    /\ crashed = FALSE
    /\ todo = [c \in Conn |-> <<>>]
    /\ loc = [c \in Conn |-> NoLoc]
    /\ pending = {}
    /\ wrote = {Out("b", OfferMsg("k1", "d1", "a")), Out("a", AnswerMsg("k1", "d1", "b"))}
    /\ tdSnap = [c \in Conn |-> nil]
    /\ nev = 0
    /\ ngen = 0

NextCall ==
    \/ \E c \in Conn : IceCheck(c)
    \/ \E c \in Conn : IceRoute(c)
    \/ \E c \in Conn : Send(c)
    \/ \E c \in Conn : InitiateCall(c)
    \/ AsyncSend
    \/ \E c \in Conn : Hangup(c)
    \/ \E c \in Conn : HangupClients(c)
    \/ \E c \in Conn : HangupNotify(c)

SpecCall == InitCall /\ [][NextCall]_vars

----------------------------------------------------------------------------
\* The two registry locks.  Here a step of a goroutine is one operation on
\* clientsMu or roomsMu, and todo[c] is the list of the lock operations the handler
\* that the goroutine of c runs has still to do: one list for every path through
\* the handler, whatever the data that selects the path.  The registries are left
\* out.  Three connections are open.

Lock(mu) == [op |-> "Lock", mu |-> mu]

Unlock(mu) == [op |-> "Unlock", mu |-> mu]

RLock(mu) == [op |-> "RLock", mu |-> mu]

RUnlock(mu) == [op |-> "RUnlock", mu |-> mu]

\* The handler returns without unlocking clientsMu.
ReturnLocked == [op |-> "return", mu |-> "clientsMu"]

\* Every path of A followed by every path of B.
Then(A, B) == {a \o b : a \in A, b \in B}

broadcastPeerListLocks == {<<RLock("clientsMu"), RUnlock("clientsMu")>>}

\* sendMessage: the write works, or it fails and the client is removed under
\* clientsMu, with a broadcast if it was still registered.
sendMessageLocks ==
    {<<>>, <<Lock("clientsMu"), Unlock("clientsMu")>>}
    \cup Then({<<Lock("clientsMu"), Unlock("clientsMu")>>}, broadcastPeerListLocks)

handleRegisterLocks ==
    Then({<<Lock("clientsMu"), Unlock("clientsMu")>>},
         Then(sendMessageLocks, broadcastPeerListLocks))

\* handleInitiateCall: the two refusals that unlock, the refusal of empty data that
\* does not, and the match with roomsMu taken inside clientsMu.
handleInitiateCallLocks ==
    Then({<<Lock("clientsMu"), Unlock("clientsMu")>>}, sendMessageLocks)
    \cup {<<Lock("clientsMu"), ReturnLocked>>}
    \cup Then({<<Lock("clientsMu"), Lock("roomsMu"), Unlock("roomsMu"), Unlock("clientsMu")>>},
              broadcastPeerListLocks)

handlePresenceUpdateLocks ==
    Then({<<Lock("clientsMu"), Unlock("clientsMu")>>}, broadcastPeerListLocks)

handleAcceptCallLocks ==
    Then({<<Lock("clientsMu"), Unlock("clientsMu")>>}, sendMessageLocks)
    \cup Then({<<Lock("clientsMu"), Lock("roomsMu"), Unlock("roomsMu"), Unlock("clientsMu")>>},
              Then(sendMessageLocks, sendMessageLocks \cup broadcastPeerListLocks))

handleOfferLocks == Then({<<RLock("roomsMu"), RUnlock("roomsMu")>>}, sendMessageLocks)

handleRejectCallLocks ==
    Then({<<Lock("clientsMu"), Unlock("clientsMu")>>},
         Then(sendMessageLocks,
              Then({<<Lock("roomsMu"), Unlock("roomsMu")>>}, broadcastPeerListLocks)))

handleICECandidateLocks == Then({<<RLock("roomsMu"), RUnlock("roomsMu")>>}, sendMessageLocks)

\* A handleHangup that takes clientsMu inside roomsMu.
handleHangupLocksNested ==
    Then({<<Lock("roomsMu"), Lock("clientsMu"), Unlock("clientsMu"), Unlock("roomsMu")>>},
         Then(sendMessageLocks, broadcastPeerListLocks))

\* handleHangup: the section under roomsMu, then the section under clientsMu.
handleHangupLocks ==
    Then({<<Lock("roomsMu"), Unlock("roomsMu"), Lock("clientsMu"), Unlock("clientsMu")>>},
         Then(sendMessageLocks, broadcastPeerListLocks))

\* The deferred cleanup of handleClient: the look at the client's state, the hangup
\* if it is in a call, the removal, the broadcast.
cleanupLocks ==
    Then({<<RLock("clientsMu"), RUnlock("clientsMu")>>},
         Then({<<>>} \cup handleHangupLocks,
              Then({<<Lock("clientsMu"), Unlock("clientsMu")>>}, broadcastPeerListLocks)))

HandlerLocks ==
    handleRegisterLocks \cup handleInitiateCallLocks \cup handlePresenceUpdateLocks
    \cup handleAcceptCallLocks \cup handleOfferLocks \cup handleRejectCallLocks
    \cup handleICECandidateLocks \cup handleHangupLocks \cup cleanupLocks

\* How many operations of the kind op on mu the goroutine of c has still to do.
OpsLeft(c, mu, op) ==
    Cardinality({i \in 1..Len(todo[c]) : todo[c][i].mu = mu /\ todo[c][i].op = op})

\* The goroutine of c holds mu locked (for writing, for reading): it has more
\* unlocks than locks of mu left to do.
HoldsLock(c, mu) ==
    OpsLeft(c, mu, "Unlock") + OpsLeft(c, mu, "return") > OpsLeft(c, mu, "Lock")

HoldsRLock(c, mu) == OpsLeft(c, mu, "RUnlock") > OpsLeft(c, mu, "RLock")

\* The next operation of the goroutine of c is to lock mu.
WantsLock(c, mu) ==
    todo[c] # <<>> /\ Head(todo[c]).mu = mu /\ Head(todo[c]).op \in {"Lock", "RLock"}

\* sync.RWMutex: Lock waits for every holder, RLock for the holder of Lock, the
\* goroutine itself included (the locks are not reentrant).
CanLock(c) ==
    LET o == Head(todo[c]) IN
    /\ o.mu = "clientsMu" => ~clientsMuHeld
    /\ \A d \in Conn :
          /\ ~HoldsLock(d, o.mu)
          /\ o.op = "Lock" => ~HoldsRLock(d, o.mu)

InitLocks ==
    /\ alive = [c \in Conn |-> ConnOrder[c] <= MaxConns]
    /\ phase = [c \in Conn |-> IF ConnOrder[c] <= MaxConns THEN "loop" ELSE "new"]
    /\ clients = {c \in Conn : ConnOrder[c] <= MaxConns}
    /\ clientsByID = {c \in Conn : ConnOrder[c] <= MaxConns}
    /\ info = [c \in Conn |-> ClientInfo(StatusIdle, "", FALSE)]
    /\ rooms = << >>
    /\ clientsMuHeld = FALSE
    /\ crashed = FALSE
    /\ todo = [c \in Conn |-> <<>>]
    /\ loc = [c \in Conn |-> NoLoc]
    /\ pending = {}
    /\ wrote = {}
    /\ tdSnap = [c \in Conn |-> nil]
    /\ nev = 0
    /\ ngen = 0

\* The goroutine of c starts a handler (or its cleanup) on one of its paths.
EnterHandler(c) ==
    /\ phase[c] = "loop" /\ todo[c] = <<>> /\ nev < MaxEvents
    /\ nev' = nev + 1
    /\ \E path \in HandlerLocks : todo' = [todo EXCEPT ![c] = path]
    /\ UNCHANGED <<alive, phase, clients, clientsByID, info, rooms, clientsMuHeld, crashed,
                   loc, pending, wrote, tdSnap, ngen>>

AcquireLock(c) ==
    /\ todo[c] # <<>> /\ Head(todo[c]).op \in {"Lock", "RLock"}
    /\ CanLock(c)
    /\ todo' = [todo EXCEPT ![c] = Tail(@)]
    /\ UNCHANGED <<alive, phase, clients, clientsByID, info, rooms, clientsMuHeld, crashed,
                   loc, pending, wrote, tdSnap, nev, ngen>>

ReleaseLock(c) ==
    /\ todo[c] # <<>> /\ Head(todo[c]).op \in {"Unlock", "RUnlock"}
    /\ todo' = [todo EXCEPT ![c] = Tail(@)]
    /\ UNCHANGED <<alive, phase, clients, clientsByID, info, rooms, clientsMuHeld, crashed,
                   loc, pending, wrote, tdSnap, nev, ngen>>

ReturnWithLock(c) ==
    /\ todo[c] # <<>> /\ Head(todo[c]).op = "return"
    /\ clientsMuHeld' = TRUE
    /\ todo' = [todo EXCEPT ![c] = Tail(@)]
    /\ UNCHANGED <<alive, phase, clients, clientsByID, info, rooms, crashed,
                   loc, pending, wrote, tdSnap, nev, ngen>>

NextLocks ==
    \/ \E c \in Conn : EnterHandler(c)
    \/ \E c \in Conn : AcquireLock(c)
    \/ \E c \in Conn : ReleaseLock(c)
    \/ \E c \in Conn : ReturnWithLock(c)

SpecLocks == InitLocks /\ [][NextLocks]_vars

----------------------------------------------------------------------------
\* The two registry locks in the earlier status server of src/unnamed/part_000:
\* the lock operations of its handlers, path by path.  A deferred Unlock is the
\* last operation of every path of its handler.

part000_broadcastPeerListLocks == {<<RLock("clientsMu"), RUnlock("clientsMu")>>}

\* sendMessage: the write works, or it fails: the client is removed under clientsMu
\* and broadcastPeerList is called.
part000_sendMessageLocks ==
    {<<>>} \cup Then({<<Lock("clientsMu"), Unlock("clientsMu")>>}, part000_broadcastPeerListLocks)

part000_handleRegisterLocks ==
    Then({<<Lock("clientsMu"), Unlock("clientsMu")>>},
         Then(part000_sendMessageLocks, part000_broadcastPeerListLocks))

\* handleInitiateCall: Lock with a deferred Unlock; the refusals send an error, the
\* match takes roomsMu, sends the offer and broadcasts.
part000_handleInitiateCallLocks ==
    Then({<<Lock("clientsMu")>>}, Then(part000_sendMessageLocks, {<<Unlock("clientsMu")>>}))
    \cup Then({<<Lock("clientsMu"), Lock("roomsMu"), Unlock("roomsMu")>>},
              Then(part000_sendMessageLocks,
                   Then(part000_broadcastPeerListLocks, {<<Unlock("clientsMu")>>})))

part000_handlePresenceUpdateLocks ==
    Then({<<Lock("clientsMu"), Unlock("clientsMu")>>}, part000_broadcastPeerListLocks)

part000_handleAcceptCallLocks ==
    Then({<<RLock("clientsMu"), RUnlock("clientsMu")>>}, part000_sendMessageLocks)
    \cup Then({<<RLock("clientsMu"), RUnlock("clientsMu"), Lock("roomsMu"), Unlock("roomsMu"),
                 Lock("clientsMu"), Unlock("clientsMu")>>},
              Then(part000_sendMessageLocks, part000_broadcastPeerListLocks))

part000_handleOfferLocks ==
    Then({<<RLock("roomsMu"), RUnlock("roomsMu")>>}, part000_sendMessageLocks)

\* handleRejectCall: Lock with a deferred Unlock around the send and the broadcast.
part000_handleRejectCallLocks ==
    Then({<<Lock("clientsMu")>>},
         Then(part000_sendMessageLocks,
              Then(part000_broadcastPeerListLocks, {<<Unlock("clientsMu")>>})))

\* handleICECandidate: RLock with a deferred RUnlock around the room lookup and the send.
part000_handleICECandidateLocks ==
    {<<RLock("clientsMu"), RUnlock("clientsMu")>>}
    \cup Then({<<RLock("clientsMu"), RLock("roomsMu"), RUnlock("roomsMu")>>},
              Then(part000_sendMessageLocks, {<<RUnlock("clientsMu")>>}))

\* handleHangup: the section under roomsMu, then Lock with a deferred Unlock around
\* the send and the broadcast.
part000_handleHangupLocks ==
    Then({<<Lock("roomsMu"), Unlock("roomsMu"), Lock("clientsMu")>>},
         Then(part000_sendMessageLocks,
              Then(part000_broadcastPeerListLocks, {<<Unlock("clientsMu")>>})))

part000_cleanupLocks ==
    Then({<<RLock("clientsMu"), RUnlock("clientsMu")>>},
         Then({<<>>} \cup part000_handleHangupLocks,
              Then({<<Lock("clientsMu"), Unlock("clientsMu")>>}, part000_broadcastPeerListLocks)))

part000_HandlerLocks ==
    part000_handleRegisterLocks \cup part000_handleInitiateCallLocks
    \cup part000_handlePresenceUpdateLocks \cup part000_handleAcceptCallLocks
    \cup part000_handleOfferLocks \cup part000_handleRejectCallLocks
    \cup part000_handleICECandidateLocks \cup part000_handleHangupLocks
    \cup part000_cleanupLocks

\* The goroutine of c starts a handler of part_000 (or its cleanup) on one of its paths.
part000_EnterHandler(c) ==
    /\ phase[c] = "loop" /\ todo[c] = <<>> /\ nev < MaxEvents
    /\ nev' = nev + 1
    /\ \E path \in part000_HandlerLocks : todo' = [todo EXCEPT ![c] = path]
    /\ UNCHANGED <<alive, phase, clients, clientsByID, info, rooms, clientsMuHeld, crashed,
                   loc, pending, wrote, tdSnap, ngen>>

part000_NextLocks ==
    \/ \E c \in Conn : part000_EnterHandler(c)
    \/ \E c \in Conn : AcquireLock(c)
    \/ \E c \in Conn : ReleaseLock(c)

part000_SpecLocks == InitLocks /\ [][part000_NextLocks]_vars

----------------------------------------------------------------------------
\* The idle-set server of src/main.go (lines 1-260).  A Client has only a callID;
\* the keys of the map idleClients are the connections whose info has idle set.
\* Every handler holds roomsMu from its first statement to its return, so a
\* handler is cut where it locks clientsMu: a goroutine that has such a step left
\* holds roomsMu, and a goroutine in its cleanup holds clientsMu from its first
\* step to its last.

idleset_CallIds == {"", "k1", "k2"}

idleset_Client(callID, idle) == [callID |-> callID, idle |-> idle]

idleset_Message(type, callId, data) == [type |-> type, callId |-> callId, data |-> data]

idleset_Room(cs, offer) == [clients |-> cs, offer |-> offer]

idleset_NoLoc == [msg |-> idleset_Message("", "", ""), rest |-> {}]

idleClients == {c \in Conn : info[c].idle}

idleset_HoldsRoomsMu(c) ==
    todo[c] # <<>> /\ Head(todo[c]) \in {"offer2", "answer2", "relay", "join2", "hangup2"}

idleset_HoldsClientsMu(c) ==
    phase[c] = "td" /\ todo[c] # <<>> /\ Head(todo[c]) \in {"hangup1", "hangup2"}

\* sync.Mutex: Lock waits for every holder, the goroutine itself included.
idleset_roomsMuFree == \A d \in Conn : ~idleset_HoldsRoomsMu(d)

idleset_clientsMuFree == \A d \in Conn : ~idleset_HoldsClientsMu(d)

\* The writes of msg to the connections of set that are still open.
idleset_WriteAll(set, msg) == {Out(r, msg) : r \in {x \in set : alive[x]}}

idleset_Init ==
    /\ alive = [c \in Conn |-> FALSE]
    /\ phase = [c \in Conn |-> "new"]
    /\ clients = {}
    /\ clientsByID = {}
    /\ info = [c \in Conn |-> idleset_Client("", FALSE)]
    /\ rooms = << >>
    /\ clientsMuHeld = FALSE
    /\ crashed = FALSE
    /\ todo = [c \in Conn |-> <<>>]
    /\ loc = [c \in Conn |-> idleset_NoLoc]
    /\ pending = {}
    /\ wrote = {}
    /\ tdSnap = [c \in Conn |-> nil]
    /\ nev = 0
    /\ ngen = 0

\* handleConnections up to the receive loop.
idleset_Connect(c) ==
    /\ ~crashed /\ idleset_clientsMuFree
    /\ phase[c] = "new"
    /\ ConnOrder[c] <= MaxConns
    /\ \A d \in Conn : ConnOrder[d] < ConnOrder[c] => phase[d] # "new"
    /\ phase' = [phase EXCEPT ![c] = "loop"]
    /\ alive' = [alive EXCEPT ![c] = TRUE]
    /\ clients' = clients \cup {c}
    /\ info' = [info EXCEPT ![c] = idleset_Client("", TRUE)]
    /\ UNCHANGED <<clientsByID, rooms, clientsMuHeld, crashed, todo, loc, pending, wrote,
                   tdSnap, nev, ngen>>

\* ReadJSON fails: the loop ends and the deferred cleanup starts.
idleset_ReadError(c) ==
    /\ ~crashed
    /\ phase[c] = "loop" /\ todo[c] = <<>> /\ ~alive[c]
    /\ phase' = [phase EXCEPT ![c] = "td"]
    /\ todo' = [todo EXCEPT ![c] = <<"td1">>]
    /\ UNCHANGED <<alive, clients, clientsByID, info, rooms, clientsMuHeld, crashed,
                   loc, pending, wrote, tdSnap, nev, ngen>>

\* handleOffer up to clientsMu.Lock: the room is created if it is missing and the
\* sender is added to it.
idleset_handleOffer(c, k, data) ==
    LET msg == idleset_Message("offer", k, data) IN
    /\ Reads(c) /\ idleset_roomsMuFree
    /\ nev' = nev + 1
    /\ rooms' = PutRoom(rooms, k, IF k \in DOMAIN rooms
                                  THEN [rooms[k] EXCEPT !.clients = @ \cup {c}]
                                  ELSE idleset_Room({c}, msg))
    /\ todo' = [todo EXCEPT ![c] = <<"offer2">>]
    /\ loc' = [loc EXCEPT ![c] = [msg |-> msg, rest |-> {}]]
    /\ UNCHANGED <<alive, phase, clients, clientsByID, info, clientsMuHeld, crashed,
                   pending, wrote, tdSnap, ngen>>

idleset_Offer(c) == \E k \in idleset_CallIds, data \in DataIn : idleset_handleOffer(c, k, data)

\* handleOffer under clientsMu: the sender leaves idleClients and the first idle
\* connection of the iteration (any of them) is put in the room.
idleset_matchOffer(c, conn) ==
    LET k == loc[c].msg.callId IN
    /\ At(c, "offer2") /\ idleset_clientsMuFree
    /\ c \in clients
    /\ conn \in idleClients \ {c}
    /\ info' = [info EXCEPT ![c] = idleset_Client(k, FALSE),
                            ![conn] = idleset_Client(IF conn \in clients THEN k ELSE @.callID,
                                                     FALSE)]
    /\ rooms' = [rooms EXCEPT ![k].clients = @ \cup {conn}]
    /\ wrote' = wrote \cup idleset_WriteAll({conn}, idleset_Message("call_joined", k, ""))
                      \cup idleset_WriteAll({conn}, loc[c].msg)
    /\ todo' = [todo EXCEPT ![c] = Tail(@)]
    /\ loc' = [loc EXCEPT ![c] = idleset_NoLoc]
    /\ UNCHANGED <<alive, phase, clients, clientsByID, clientsMuHeld, crashed, pending,
                   tdSnap, nev, ngen>>

idleset_OfferMatch(c) ==
    /\ At(c, "offer2") /\ idleset_clientsMuFree
    /\ \/ \E conn \in Conn : idleset_matchOffer(c, conn)
       \/ /\ c \in clients
          /\ idleClients \ {c} = {}
          /\ info' = [info EXCEPT ![c] = idleset_Client(loc[c].msg.callId, FALSE)]
          /\ todo' = [todo EXCEPT ![c] = Tail(@)]
          /\ loc' = [loc EXCEPT ![c] = idleset_NoLoc]
          /\ UNCHANGED <<alive, phase, clients, clientsByID, rooms, clientsMuHeld, crashed,
                         pending, wrote, tdSnap, nev, ngen>>
       \/ /\ c \notin clients
          /\ crashed' = TRUE
          /\ UNCHANGED <<alive, phase, clients, clientsByID, info, rooms, clientsMuHeld,
                         todo, loc, pending, wrote, tdSnap, nev, ngen>>

\* handleAnswer and handleJoinCall up to clientsMu.Lock: nothing without the room,
\* else the sender is added to it.
idleset_enterRoom(c, msg, steps) ==
    LET k == msg.callId IN
    /\ Reads(c) /\ idleset_roomsMuFree
    /\ nev' = nev + 1
    /\ IF k \in DOMAIN rooms
       THEN /\ rooms' = [rooms EXCEPT ![k].clients = @ \cup {c}]
            /\ todo' = [todo EXCEPT ![c] = IF rooms[k].clients \ {c} = {}
                                           THEN SelectSeq(steps, LAMBDA s : s # "relay")
                                           ELSE steps]
            /\ loc' = [loc EXCEPT ![c] = [msg |-> msg, rest |-> rooms[k].clients \ {c}]]
       ELSE UNCHANGED <<rooms, todo, loc>>
    /\ UNCHANGED <<alive, phase, clients, clientsByID, info, clientsMuHeld, crashed,
                   pending, wrote, tdSnap, ngen>>

idleset_Answer(c) ==
    \E k \in idleset_CallIds, data \in DataIn :
        idleset_enterRoom(c, idleset_Message("answer", k, data), <<"answer2", "relay">>)

idleset_Join(c) ==
    \E k \in idleset_CallIds :
        idleset_enterRoom(c, idleset_Message("join_call", k, ""), <<"join2">>)

\* clients[sender].callID = msg.CallID under clientsMu; writes: what is written to
\* the sender afterwards.
idleset_setCallID(c, writes) ==
    /\ idleset_clientsMuFree
    /\ \/ /\ c \in clients
          /\ info' = [info EXCEPT ![c].callID = loc[c].msg.callId]
          /\ wrote' = wrote \cup writes
          /\ todo' = [todo EXCEPT ![c] = Tail(@)]
          /\ loc' = [loc EXCEPT ![c] = IF Tail(todo[c]) = <<>> THEN idleset_NoLoc ELSE @]
          /\ UNCHANGED crashed
       \/ /\ c \notin clients
          /\ crashed' = TRUE
          /\ UNCHANGED <<info, wrote, todo, loc>>
    /\ UNCHANGED <<alive, phase, clients, clientsByID, rooms, clientsMuHeld, pending,
                   tdSnap, nev, ngen>>

idleset_AnswerSetCallID(c) == At(c, "answer2") /\ idleset_setCallID(c, {})

\* handleJoinCall sends the stored offer of the room to the sender.
idleset_JoinSetCallID(c) ==
    /\ At(c, "join2")
    /\ idleset_setCallID(c, idleset_WriteAll({c}, rooms[loc[c].msg.callId].offer))

\* handleICECandidate up to its loop.
idleset_Ice(c) ==
    /\ Reads(c) /\ idleset_roomsMuFree
    /\ nev' = nev + 1
    /\ \E k \in idleset_CallIds, data \in DataIn :
          IF k \in DOMAIN rooms /\ rooms[k].clients \ {c} # {}
          THEN /\ todo' = [todo EXCEPT ![c] = <<"relay">>]
               /\ loc' = [loc EXCEPT ![c] = [msg |-> idleset_Message("ice-candidate", k, data),
                                             rest |-> rooms[k].clients \ {c}]]
          ELSE UNCHANGED <<todo, loc>>
    /\ UNCHANGED <<alive, phase, clients, clientsByID, info, rooms, clientsMuHeld, crashed,
                   pending, wrote, tdSnap, ngen>>

\* One turn of the loop over room.clients in handleAnswer and handleICECandidate:
\* the write works, or it fails and the client is deleted under clientsMu.
idleset_Relay(c) ==
    /\ At(c, "relay")
    /\ \E r \in loc[c].rest :
          /\ IF alive[r]
             THEN /\ wrote' = wrote \cup {Out(r, loc[c].msg)}
                  /\ UNCHANGED <<clients, info>>
             ELSE /\ idleset_clientsMuFree
                  /\ clients' = clients \ {r}
                  /\ info' = [info EXCEPT ![r].idle = FALSE]
                  /\ UNCHANGED wrote
          /\ IF loc[c].rest = {r}
             THEN /\ todo' = [todo EXCEPT ![c] = Tail(@)]
                  /\ loc' = [loc EXCEPT ![c] = idleset_NoLoc]
             ELSE /\ loc' = [loc EXCEPT ![c].rest = @ \ {r}]
                  /\ UNCHANGED todo
    /\ UNCHANGED <<alive, phase, clientsByID, rooms, clientsMuHeld, crashed, pending,
                   tdSnap, nev, ngen>>

\* handleHangup up to clientsMu.Lock, the room being there: peer_disconnected to
\* the other clients of the room.
idleset_handleHangup(c, k) ==
    /\ idleset_roomsMuFree
    /\ k \in DOMAIN rooms
    /\ wrote' = wrote \cup idleset_WriteAll(rooms[k].clients \ {c},
                                            idleset_Message("peer_disconnected", k, ""))
    /\ todo' = [todo EXCEPT ![c] = <<"hangup2">>]
    /\ loc' = [loc EXCEPT ![c] = [msg |-> idleset_Message("hangup", k, ""), rest |-> {}]]

idleset_Hangup(c) ==
    /\ Reads(c)
    /\ nev' = nev + 1
    /\ \E k \in idleset_CallIds :
          \/ idleset_handleHangup(c, k)
          \/ idleset_roomsMuFree /\ k \notin DOMAIN rooms /\ UNCHANGED <<wrote, todo, loc>>
    /\ UNCHANGED <<alive, phase, clients, clientsByID, info, rooms, clientsMuHeld, crashed,
                   pending, tdSnap, ngen>>

\* delete(clients, ws); delete(idleClients, ws); clientsMu.Unlock().
idleset_remove(c, inf) ==
    /\ clients' = clients \ {c}
    /\ info' = [inf EXCEPT ![c].idle = FALSE]
    /\ phase' = [phase EXCEPT ![c] = "done"]

\* handleHangup from clientsMu.Lock on: the clients of the room that are registered
\* get an empty callID and are put in idleClients; the room is deleted.  In the
\* cleanup the removal follows.
idleset_HangupReset(c) ==
    LET k == loc[c].msg.callId
        inf == [x \in Conn |-> IF x \in rooms[k].clients \cap clients
                               THEN idleset_Client("", TRUE) ELSE info[x]]
    IN
    /\ At(c, "hangup2") /\ idleset_clientsMuFree
    /\ IF phase[c] = "td"
       THEN idleset_remove(c, inf)
       ELSE info' = inf /\ UNCHANGED <<clients, phase>>
    /\ rooms' = DelRoom(rooms, k)
    /\ todo' = [todo EXCEPT ![c] = Tail(@)]
    /\ loc' = [loc EXCEPT ![c] = idleset_NoLoc]
    /\ UNCHANGED <<alive, clientsByID, clientsMuHeld, crashed, pending, wrote, tdSnap,
                   nev, ngen>>

\* The deferred cleanup: clientsMu.Lock, then handleHangup for a client with a
\* callID, else the removal.
idleset_Cleanup(c) ==
    /\ At(c, "td1") /\ idleset_clientsMuFree
    /\ IF c \in clients /\ info[c].callID # ""
       THEN /\ todo' = [todo EXCEPT ![c] = <<"hangup1">>]
            /\ loc' = [loc EXCEPT ![c] = [msg |-> idleset_Message("hangup", info[c].callID, ""),
                                          rest |-> {}]]
            /\ UNCHANGED <<clients, info, phase>>
       ELSE /\ idleset_remove(c, info)
            /\ todo' = [todo EXCEPT ![c] = <<>>]
            /\ UNCHANGED loc
    /\ UNCHANGED <<alive, clientsByID, rooms, clientsMuHeld, crashed, pending, wrote,
                   tdSnap, nev, ngen>>

\* handleHangup called by the cleanup, which holds clientsMu: without the room it
\* returns and the removal follows.
idleset_CleanupHangup(c) ==
    /\ At(c, "hangup1")
    /\ \/ /\ idleset_handleHangup(c, loc[c].msg.callId)
          /\ UNCHANGED <<clients, info, phase>>
       \/ /\ idleset_roomsMuFree /\ loc[c].msg.callId \notin DOMAIN rooms
          /\ idleset_remove(c, info)
          /\ todo' = [todo EXCEPT ![c] = <<>>]
          /\ loc' = [loc EXCEPT ![c] = idleset_NoLoc]
          /\ UNCHANGED wrote
    /\ UNCHANGED <<alive, clientsByID, rooms, clientsMuHeld, crashed, pending, tdSnap,
                   nev, ngen>>

idleset_Next ==
    \/ \E c \in Conn : idleset_Connect(c)
    \/ \E c \in Conn : Disconnect(c)
    \/ \E c \in Conn : idleset_ReadError(c)
    \/ \E c \in Conn : idleset_Offer(c)
    \/ \E c \in Conn : idleset_OfferMatch(c)
    \/ \E c \in Conn : idleset_Answer(c)
    \/ \E c \in Conn : idleset_AnswerSetCallID(c)
    \/ \E c \in Conn : idleset_Join(c)
    \/ \E c \in Conn : idleset_JoinSetCallID(c)
    \/ \E c \in Conn : idleset_Ice(c)
    \/ \E c \in Conn : idleset_Relay(c)
    \/ \E c \in Conn : idleset_Hangup(c)
    \/ \E c \in Conn : idleset_HangupReset(c)
    \/ \E c \in Conn : idleset_Cleanup(c)
    \/ \E c \in Conn : idleset_CleanupHangup(c)

idleset_Spec == idleset_Init /\ [][idleset_Next]_vars

----------------------------------------------------------------------------
\* The broadcast-call server of src/unnamed/part_001: initiate_call sends
\* incoming_call to every idle client and the first accept_call makes the room.
\* handleAcceptCall and handleHangupInternal hold roomsMu and clientsMu from their
\* first statements to their return; a handler is cut where it locks a mutex after
\* another one, and the cleanup holds clientsMu from its first step to its last.

part001_CallIds == {"", "k1", "k2"}

part001_Message(type, callId, data, callerId) ==
    [type |-> type, callId |-> callId, data |-> data, callerId |-> callerId]

part001_Room(id, caller, callee) == [ID |-> id, Participants |-> {caller, callee}]

part001_NoLoc == [msg |-> part001_Message("", "", "", ""), reason |-> ""]

part001_HoldsRoomsMu(c) == todo[c] # <<>> /\ Head(todo[c]) \in {"acc2", "hg2"}

part001_HoldsClientsMu(c) ==
    phase[c] = "td" /\ todo[c] # <<>> /\ Head(todo[c]) \in {"hg1", "hg2"}

\* sync.RWMutex: Lock and RLock wait for the holder of Lock, the goroutine itself
\* included (no step of the model ends with a read lock held).
part001_roomsMuFree == \A d \in Conn : ~part001_HoldsRoomsMu(d)

part001_clientsMuFree == \A d \in Conn : ~part001_HoldsClientsMu(d)

\* conn.WriteJSON(msg) for the connections of set: the errors are only logged.
part001_WriteAll(set, msg) == {Out(r, msg) : r \in {x \in set : alive[x]}}

part001_Init ==
    /\ alive = [c \in Conn |-> FALSE]
    /\ phase = [c \in Conn |-> "new"]
    /\ clients = {}
    /\ clientsByID = {}
    /\ info = [c \in Conn |-> ClientInfo(StatusIdle, "", FALSE)]
    /\ rooms = << >>
    /\ clientsMuHeld = FALSE
    /\ crashed = FALSE
    /\ todo = [c \in Conn |-> <<>>]
    /\ loc = [c \in Conn |-> part001_NoLoc]
    /\ pending = {}
    /\ wrote = {}
    /\ tdSnap = [c \in Conn |-> nil]
    /\ nev = 0
    /\ ngen = 0

\* handleConnections up to the receive loop.
part001_Connect(c) ==
    /\ part001_clientsMuFree
    /\ phase[c] = "new"
    /\ ConnOrder[c] <= MaxConns
    /\ \A d \in Conn : ConnOrder[d] < ConnOrder[c] => phase[d] # "new"
    /\ phase' = [phase EXCEPT ![c] = "loop"]
    /\ alive' = [alive EXCEPT ![c] = TRUE]
    /\ clients' = clients \cup {c}
    /\ clientsByID' = clientsByID \cup {c}
    /\ info' = [info EXCEPT ![c] = ClientInfo(StatusIdle, "", FALSE)]
    /\ UNCHANGED <<rooms, clientsMuHeld, crashed, todo, loc, pending, wrote, tdSnap,
                   nev, ngen>>

\* ReadJSON fails: the loop ends and the deferred cleanup starts.
part001_ReadError(c) ==
    /\ phase[c] = "loop" /\ todo[c] = <<>> /\ ~alive[c]
    /\ phase' = [phase EXCEPT ![c] = "td"]
    /\ todo' = [todo EXCEPT ![c] = <<"td1">>]
    /\ UNCHANGED <<alive, clients, clientsByID, info, rooms, clientsMuHeld, crashed,
                   loc, pending, wrote, tdSnap, nev, ngen>>

\* handleInitiateCall, first section under clientsMu.Lock.
part001_handleInitiateCall(c, k, data) ==
    /\ Reads(c) /\ part001_clientsMuFree
    /\ nev' = nev + 1
    /\ IF info[c].Status # StatusIdle
       THEN /\ wrote' = wrote \cup part001_WriteAll({c},
                   part001_Message("error", k,
                       "Cannot initiate call, already in a call or calling.", ""))
            /\ UNCHANGED <<info, todo, loc>>
       ELSE /\ info' = [info EXCEPT ![c] = ClientInfo(StatusCalling, k, TRUE)]
            /\ todo' = [todo EXCEPT ![c] = <<"init2">>]
            /\ loc' = [loc EXCEPT ![c] = [msg |-> part001_Message("incoming_call", k, data, c),
                                          reason |-> ""]]
            /\ UNCHANGED wrote
    /\ UNCHANGED <<alive, phase, clients, clientsByID, rooms, clientsMuHeld, crashed,
                   pending, tdSnap, ngen>>

part001_InitiateCall(c) ==
    \E k \in part001_CallIds, data \in DataIn : part001_handleInitiateCall(c, k, data)

\* The clients that get incoming_call.
part001_IdleClients(c) == {x \in clients : x # c /\ info[x].Status = StatusIdle}

\* handleInitiateCall, the loop under clientsMu.RLock, and the error to the caller
\* if nobody is idle.
part001_Broadcast(c) ==
    /\ At(c, "init2") /\ part001_clientsMuFree
    /\ IF part001_IdleClients(c) = {}
       THEN /\ wrote' = wrote \cup part001_WriteAll({c},
                   part001_Message("error", loc[c].msg.callId,
                       "No idle users available to call.", ""))
            /\ todo' = [todo EXCEPT ![c] = <<"init3">>]
            /\ UNCHANGED loc
       ELSE /\ wrote' = wrote \cup part001_WriteAll(part001_IdleClients(c), loc[c].msg)
            /\ todo' = [todo EXCEPT ![c] = <<>>]
            /\ loc' = [loc EXCEPT ![c] = part001_NoLoc]
    /\ UNCHANGED <<alive, phase, clients, clientsByID, info, rooms, clientsMuHeld, crashed,
                   pending, tdSnap, nev, ngen>>

\* handleInitiateCall, the reset of the caller that found nobody idle.
part001_NobodyIdle(c) ==
    /\ At(c, "init3") /\ part001_clientsMuFree
    /\ info' = [info EXCEPT ![c] = ClientInfo(StatusIdle, "", FALSE)]
    /\ todo' = [todo EXCEPT ![c] = <<>>]
    /\ loc' = [loc EXCEPT ![c] = part001_NoLoc]
    /\ UNCHANGED <<alive, phase, clients, clientsByID, rooms, clientsMuHeld, crashed,
                   pending, wrote, tdSnap, nev, ngen>>

\* handleAcceptCall: roomsMu.Lock.
part001_Accept(c) ==
    /\ Reads(c) /\ part001_roomsMuFree
    /\ nev' = nev + 1
    /\ \E k \in part001_CallIds, data \in DataIn :
          loc' = [loc EXCEPT ![c] = [msg |-> part001_Message("accept_call", k, data, ""),
                                     reason |-> ""]]
    /\ todo' = [todo EXCEPT ![c] = <<"acc2">>]
    /\ UNCHANGED <<alive, phase, clients, clientsByID, info, rooms, clientsMuHeld, crashed,
                   pending, wrote, tdSnap, ngen>>

\* The clients the loop over clientsByID may stop at: one of them is the caller,
\* nil if there is none.
part001_Callers(k) ==
    IF \E x \in clientsByID : info[x].CallID = k /\ info[x].IsCaller
    THEN {x \in clientsByID : info[x].CallID = k /\ info[x].IsCaller}
    ELSE {nil}

\* A callee that is never refused for its status.
part001_CalleeIdleAlways(c) == TRUE

part001_CalleeIdle(c) == info[c].Status = StatusIdle

\* handleAcceptCall from clientsMu.Lock on, with the caller the lookup found.
part001_handleAcceptCall(c, caller) ==
    LET k == loc[c].msg.callId IN
    /\ At(c, "acc2") /\ part001_clientsMuFree
    /\ caller \in part001_Callers(k)
    /\ IF k \in DOMAIN rooms
       THEN /\ wrote' = wrote \cup part001_WriteAll({c},
                   part001_Message("call_taken", k, "This call has already been accepted.", ""))
            /\ UNCHANGED <<info, rooms>>
       ELSE IF caller = nil \/ info[caller].Status # StatusCalling
       THEN /\ wrote' = wrote \cup part001_WriteAll({c},
                   part001_Message("error", k,
                       "Call not found or caller no longer available.", ""))
            /\ UNCHANGED <<info, rooms>>
       ELSE IF ~part001_CalleeIdle(c)
       THEN /\ wrote' = wrote \cup part001_WriteAll({c},
                   part001_Message("error", k, "Cannot accept call, you are not idle.", ""))
            /\ UNCHANGED <<info, rooms>>
       ELSE /\ rooms' = PutRoom(rooms, k, part001_Room(k, caller, c))
            /\ info' = [info EXCEPT ![caller].Status = StatusInCall,
                                    ![c] = ClientInfo(StatusInCall, k, FALSE)]
            /\ wrote' = wrote \cup part001_WriteAll({caller},
                                       part001_Message("answer", k, loc[c].msg.data, ""))
                              \cup part001_WriteAll(clients \ {caller, c},
                                       part001_Message("call_taken", k, "", ""))
    /\ todo' = [todo EXCEPT ![c] = Tail(@)]
    /\ loc' = [loc EXCEPT ![c] = part001_NoLoc]
    /\ UNCHANGED <<alive, phase, clients, clientsByID, clientsMuHeld, crashed, pending,
                   tdSnap, nev, ngen>>

part001_AcceptCall(c) == \E caller \in Conn \cup {nil} : part001_handleAcceptCall(c, caller)

\* handleRejectCall only logs.
part001_RejectCall(c) ==
    /\ Reads(c)
    /\ nev' = nev + 1
    /\ UNCHANGED <<alive, phase, clients, clientsByID, info, rooms, clientsMuHeld, crashed,
                   todo, loc, pending, wrote, tdSnap, ngen>>

\* handleICECandidate: the lookup under roomsMu.RLock and the relay.
part001_IceCandidate(c) ==
    /\ Reads(c) /\ part001_roomsMuFree
    /\ nev' = nev + 1
    /\ \E k \in part001_CallIds, data \in DataIn :
          wrote' = wrote \cup
              (IF k \in DOMAIN rooms
               THEN part001_WriteAll(rooms[k].Participants \ {c},
                                     part001_Message("ice-candidate", k, data, ""))
               ELSE {})
    /\ UNCHANGED <<alive, phase, clients, clientsByID, info, rooms, clientsMuHeld, crashed,
                   todo, loc, pending, tdSnap, ngen>>

\* A hangup message: handleHangupInternal returns for an empty call id, else it
\* locks roomsMu.
part001_Hangup(c) ==
    /\ Reads(c)
    /\ nev' = nev + 1
    /\ \E k \in part001_CallIds :
          IF k = ""
          THEN UNCHANGED <<todo, loc>>
          ELSE /\ part001_roomsMuFree
               /\ todo' = [todo EXCEPT ![c] = <<"hg2">>]
               /\ loc' = [loc EXCEPT ![c] = [msg |-> part001_Message("hangup", k, "", ""),
                                             reason |-> "hangup_request"]]
    /\ UNCHANGED <<alive, phase, clients, clientsByID, info, rooms, clientsMuHeld, crashed,
                   pending, wrote, tdSnap, ngen>>

\* delete(clientsByID, ...); delete(clients, ws); clientsMu.Unlock().
part001_remove(c) ==
    /\ clients' = clients \ {c}
    /\ clientsByID' = clientsByID \ {c}
    /\ phase' = [phase EXCEPT ![c] = "done"]

\* The clients the loop over clientsByID may stop at when the room is missing.
part001_CallingWith(k) ==
    {x \in clientsByID : info[x].CallID = k /\ info[x].Status = StatusCalling}

\* handleHangupInternal from clientsMu.Lock on.  Without the room one client that
\* is calling with the call id is reset; with it the other participants are told,
\* the registered participants are reset and the room is deleted.  In the cleanup
\* the removal follows.
part001_HangupClients(c) ==
    LET k == loc[c].msg.callId IN
    /\ At(c, "hg2") /\ part001_clientsMuFree
    /\ IF k \in DOMAIN rooms
       THEN /\ wrote' = wrote \cup part001_WriteAll(rooms[k].Participants \ {c},
                                       part001_Message("peer_disconnected", k, loc[c].reason, ""))
            /\ info' = [x \in Conn |-> IF x \in rooms[k].Participants \cap clients
                                       THEN ClientInfo(StatusIdle, "", FALSE) ELSE info[x]]
            /\ rooms' = DelRoom(rooms, k)
       ELSE /\ \/ \E x \in part001_CallingWith(k) :
                     info' = [info EXCEPT ![x] = ClientInfo(StatusIdle, "", FALSE)]
               \/ part001_CallingWith(k) = {} /\ UNCHANGED info
            /\ UNCHANGED <<wrote, rooms>>
    /\ IF phase[c] = "td" THEN part001_remove(c) ELSE UNCHANGED <<clients, clientsByID, phase>>
    /\ todo' = [todo EXCEPT ![c] = <<>>]
    /\ loc' = [loc EXCEPT ![c] = part001_NoLoc]
    /\ UNCHANGED <<alive, clientsMuHeld, crashed, pending, tdSnap, nev, ngen>>

\* The deferred cleanup: clientsMu.Lock; a client that is calling or in a call goes
\* to handleHangupInternal, which returns at once for an empty call id; else the
\* removal.
part001_Cleanup(c) ==
    /\ At(c, "td1") /\ part001_clientsMuFree
    /\ IF info[c].Status \in {StatusInCall, StatusCalling} /\ info[c].CallID # ""
       THEN /\ todo' = [todo EXCEPT ![c] = <<"hg1">>]
            /\ loc' = [loc EXCEPT ![c] = [msg |-> part001_Message("hangup", info[c].CallID, "", ""),
                                          reason |-> "peer_disconnected_unexpectedly"]]
            /\ UNCHANGED <<clients, clientsByID, phase>>
       ELSE /\ part001_remove(c)
            /\ todo' = [todo EXCEPT ![c] = <<>>]
            /\ UNCHANGED loc
    /\ UNCHANGED <<alive, info, rooms, clientsMuHeld, crashed, pending, wrote, tdSnap,
                   nev, ngen>>

\* handleHangupInternal called by the cleanup, which holds clientsMu: roomsMu.Lock.
part001_CleanupHangup(c) ==
    /\ At(c, "hg1") /\ part001_roomsMuFree
    /\ todo' = [todo EXCEPT ![c] = <<"hg2">>]
    /\ UNCHANGED <<alive, phase, clients, clientsByID, info, rooms, clientsMuHeld, crashed,
                   loc, pending, wrote, tdSnap, nev, ngen>>

part001_Next ==
    \/ \E c \in Conn : part001_Connect(c)
    \/ \E c \in Conn : Disconnect(c)
    \/ \E c \in Conn : part001_ReadError(c)
    \/ \E c \in Conn : part001_InitiateCall(c)
    \/ \E c \in Conn : part001_Broadcast(c)
    \/ \E c \in Conn : part001_NobodyIdle(c)
    \/ \E c \in Conn : part001_Accept(c)
    \/ \E c \in Conn : part001_AcceptCall(c)
    \/ \E c \in Conn : part001_RejectCall(c)
    \/ \E c \in Conn : part001_IceCandidate(c)
    \/ \E c \in Conn : part001_Hangup(c)
    \/ \E c \in Conn : part001_HangupClients(c)
    \/ \E c \in Conn : part001_Cleanup(c)
    \/ \E c \in Conn : part001_CleanupHangup(c)

part001_Spec == part001_Init /\ [][part001_Next]_vars

----------------------------------------------------------------------------
\* Properties

\* The rooms that have c as CallerConn or CalleeConn.
RoomsOf(c) == {k \in DOMAIN rooms : c \in {rooms[k].CallerConn, rooms[k].CalleeConn}}

\* No handler, cleanup or sendMessage goroutine has a step left, and the cleanup of
\* every lost transport has run.
Quiescent ==
    /\ ~crashed
    /\ pending = {}
    /\ \A c \in Conn : todo[c] = <<>> /\ (phase[c] = "loop" => alive[c])

\* The offers handleInitiateCall has made, written or not.
Offers == {o \in pending \cup wrote : o.msg.type = "offer" /\ o.msg.callerId # ""}

\* C1: a registered client's status is idle exactly when its CallID is empty.
C1_IdleIffNoCallID ==
    \A c \in clients : (info[c].Status = StatusIdle) <=> (info[c].CallID = "")

\* C2: at quiescence the CallerConn and the CalleeConn of every room are keys of
\* the clients registry, whichever way clients were removed.
C2_RoomMembersRegistered ==
    Quiescent =>
        \A k \in DOMAIN rooms : rooms[k].CallerConn \in clients /\ rooms[k].CalleeConn \in clients

\* C3, first part: no client is selected as callee by more than one initiate_call
\* request, and no client is the caller of one call and the callee of another.
C3_OneMatchPerClient ==
    \A o1, o2 \in Offers :
        /\ o1.to = o2.to => o1 = o2
        /\ o1.to # o2.msg.callerId

\* The request of x is matched with an idle peer other than x.
C3_Matched(x) ==
    \E y \in clientsByID \ {x} :
        /\ info[y].Status = StatusIdle
        /\ info'[y].Status = StatusRinging
        /\ info'[x].Status = StatusCalling
        /\ info'[x].CallID = info'[y].CallID

\* The request of x with callId k is answered with the error text.
C3_Answered(x, k, text) ==
    /\ info' = info
    /\ loc'[x].outq = <<[to |-> x, msg |-> [type |-> "error", callId |-> k, data |-> text,
                                             callerId |-> "", reason |-> "", peerId |-> "",
                                             status |-> ""]]>>

\* C3 as claimed: of concurrent initiate_call requests of idle clients none selects
\* a callee that another has selected, no client is caller of one call and callee of
\* another, and every request is either matched with an idle peer or answered with
\* the no-peers error.
C3_RaceMatchOrNoPeers ==
    /\ []C3_OneMatchPerClient
    /\ [][\A x \in Conn, k \in {""} \cup ClientCallIds, d \in DataIn \ {""} :
            (handleInitiateCall(x, k, d) /\ info[x].Status # StatusCalling)
               => \/ C3_Matched(x)
                  \/ C3_Answered(x, k, "No available peers")]_vars

\* C3 amended: as claimed, except that a request of a client that another request
\* has meanwhile selected as its callee (it is ringing) is answered with the
\* already-in-a-call error.
C3_RaceMatchOrError ==
    /\ []C3_OneMatchPerClient
    /\ [][\A x \in Conn, k \in {""} \cup ClientCallIds, d \in DataIn \ {""} :
            (handleInitiateCall(x, k, d) /\ info[x].Status # StatusCalling)
               => \/ C3_Matched(x)
                  \/ C3_Answered(x, k, "No available peers")
                  \/ /\ info[x].Status = StatusRinging
                     /\ C3_Answered(x, k, "Already in a call")]_vars

\* Two requests have been matched with different callees, and a client selected as
\* callee has had its own request answered with the already-in-a-call error.
C3_Witness ==
    /\ \E o1, o2 \in Offers : o1.to # o2.to
    /\ \E x \in Conn :
        /\ info[x].Status = StatusRinging
        /\ \E o \in Offers : o.to = x
        /\ loc[x].outq # <<>>
        /\ Head(loc[x].outq).msg.data = "Already in a call"

\* C4: no connection is CallerConn or CalleeConn of two rooms.
C4_OneRoomPerConn == \A c \in Conn : Cardinality(RoomsOf(c)) <= 1

\* C5: at quiescence a registered client is idle exactly when it is in no room, and
\* a client that is not idle is a participant of the room of its CallID.
C5_IdleIffInNoRoom ==
    Quiescent =>
        \A c \in clients :
            /\ (info[c].Status = StatusIdle) <=> (RoomsOf(c) = {})
            /\ info[c].Status # StatusIdle => info[c].CallID \in RoomsOf(c)

\* C6: no step changes the CallerConn or the CalleeConn of a room that exists
\* before and after it.
C6_RoomSlotsFixed ==
    [][\A k \in DOMAIN rooms \cap DOMAIN rooms' :
          /\ rooms'[k].CallerConn = rooms[k].CallerConn
          /\ rooms'[k].CalleeConn = rooms[k].CalleeConn]_vars

\* C7: when the receive loop of X ended while X was in-call with Y, then once the
\* cleanup of X is over Y has been sent peer_disconnected for the call, Y is idle
\* with an empty CallID, the room is gone and X is in neither registry map.
C7_ReadErrorEndsCall ==
    \A x \in Conn :
        (~crashed /\ phase[x] = "td" /\ todo[x] = <<>> /\ tdSnap[x].together) =>
            LET y == tdSnap[x].peer
                k == tdSnap[x].CallID
            IN /\ \E o \in wrote : o.to = y /\ o.msg.type = "peer_disconnected"
                                          /\ o.msg.callId = k
               /\ info[y].Status = StatusIdle /\ info[y].CallID = ""
               /\ k \notin DOMAIN rooms
               /\ x \notin clients /\ x \notin clientsByID

\* C8: whatever step removes a client that is in a call from the registry (timeout
\* eviction and failed write included), the room of the call is gone and the
\* partner is idle when the client is removed.
C8_RemovalEndsCall ==
    [][\A c \in Conn :
          (c \in clients /\ c \notin clients' /\ info[c].Status # StatusIdle
             /\ PeerOf(c) # nil)
             => /\ info[c].CallID \notin DOMAIN rooms'
                /\ info'[PeerOf(c)].Status = StatusIdle]_vars

\* C9: at quiescence no registered client is calling in a room whose callee is no
\* longer registered (the caller has been brought back to idle).
C9_NoCallerLeftCalling ==
    Quiescent =>
        \A x \in clients :
            ~ /\ info[x].Status = StatusCalling
              /\ \E k \in RoomsOf(x) : /\ rooms[k].CallerConn = x
                                       /\ rooms[k].CalleeConn \notin clients

\* C10: an initiate_call with data d from an idle client x, while another registered
\* client is idle, picks exactly one idle client y other than x: x becomes calling
\* with IsCaller true, y becomes ringing, both under one call id, exactly
\* one offer goes out, to y, with the id of x and the data d unchanged, and the state
\* of no other client changes.
C10_InitiateCallMatches ==
    [][\A x \in Conn, k \in {""} \cup ClientCallIds, d \in DataIn \ {""} :
          (/\ info[x].Status = StatusIdle
           /\ \E y \in clientsByID \ {x} : info[y].Status = StatusIdle
           /\ handleInitiateCall(x, k, d))
          => \E y \in clientsByID \ {x} :
                LET id == info'[x].CallID
                    offer == [to |-> y,
                              msg |-> [type |-> "offer", callId |-> id, data |-> d,
                                       callerId |-> x, reason |-> "", peerId |-> x,
                                       status |-> ""]]
                IN /\ info[y].Status = StatusIdle
                   /\ id # "" /\ (k # "" => id = k)
                   /\ info'[x] = [Status |-> StatusCalling, CallID |-> id, IsCaller |-> TRUE]
                   /\ info'[y] = [Status |-> StatusRinging, CallID |-> id, IsCaller |-> FALSE]
                   /\ \A z \in Conn \ {x, y} : info'[z] = info[z]
                   /\ offer \in pending'
                   /\ \A o \in pending' \ pending : o.msg.type = "offer" => o = offer]_vars

\* An initiate_call has just matched x with y: the offer for y is about to be written.
C10_Witness ==
    \E x, y \in clients :
        /\ x # y
        /\ info[x] = [Status |-> StatusCalling, CallID |-> info[y].CallID, IsCaller |-> TRUE]
        /\ info[y].Status = StatusRinging
        /\ \E o \in pending : /\ o.to = y /\ o.msg.type = "offer"
                              /\ o.msg.callerId = x /\ o.msg.callId = info[x].CallID
                              /\ o.msg.data \in DataIn \ {""}

C12_NoPeersNoChange ==
    [][\A x \in Conn, k \in {""} \cup ClientCallIds, d \in DataIn :
          (/\ info[x].Status = StatusIdle
           /\ ~ \E y \in clientsByID \ {x} : info[y].Status = StatusIdle
           /\ handleInitiateCall(x, k, d))
          => /\ info' = info
             /\ rooms' = rooms
             /\ pending' = pending
             /\ todo'[x] # <<>> /\ Head(todo'[x]) = "send"
             /\ Len(loc'[x].outq) = 1
             /\ Head(loc'[x].outq).to = x
             /\ Head(loc'[x].outq).msg.type = "error"]_vars

\* An idle client has asked for a call with no idle peer: the no-peers error is
\* about to be written to it.
C12_Witness ==
    \E x \in clients :
        /\ At(x, "send")
        /\ Head(loc[x].outq) = [to |-> x, msg |-> ErrorMsg("No available peers",
                                                           Head(loc[x].outq).msg.callId)]
        /\ info[x].Status = StatusIdle /\ info[x].CallID = ""
        /\ \E y \in clients \ {x} : info[y].Status # StatusIdle

\* The state resetClientState leaves a client in.
IdleState == [Status |-> StatusIdle, CallID |-> "", IsCaller |-> FALSE]

\* C13: when a participant c of the existing room k sends hangup for k, the room is
\* deleted at once; then, both participants being registered, both are reset to
\* idle with empty CallID and IsCaller false and exactly one peer_disconnected
\* with the reason "hangup" is prepared for the other participant and written to
\* it; the statuses the two had (calling, ringing, in-call) play no part.
C13_HangupEndsCall ==
    /\ [][\A c \in Conn, k \in CallIdIn :
            (/\ k \in DOMAIN rooms
             /\ c \in {rooms[k].CallerConn, rooms[k].CalleeConn}
             /\ HangupCall(c, k))
            => /\ k \notin DOMAIN rooms'
               /\ todo'[c] = <<"h2", "h3", "bcast">>
               /\ loc'[c] = [callID |-> k, reason |-> "hangup", outq |-> <<>>,
                             otherConn |-> IF rooms[k].CallerConn = c
                                           THEN rooms[k].CalleeConn
                                           ELSE rooms[k].CallerConn]]_vars
    /\ [][\A c \in Conn :
            (/\ At(c, "h2") /\ loc[c].reason = "hangup"
             /\ c \in clients /\ loc[c].otherConn \in clients
             /\ HangupClients(c))
            => /\ info'[c] = IdleState
               /\ info'[loc[c].otherConn] = IdleState
               /\ todo'[c] = <<"h3", "bcast">>
               /\ loc'[c].outq =
                    <<[to |-> loc[c].otherConn,
                       msg |-> [type |-> "peer_disconnected", callId |-> loc[c].callID,
                                data |-> "", callerId |-> "", reason |-> "hangup",
                                peerId |-> c, status |-> ""]]>>]_vars
    /\ [][\A c \in Conn :
            (/\ At(c, "h3") /\ loc[c].reason = "hangup"
             /\ loc[c].otherConn \in clients /\ alive[loc[c].otherConn]
             /\ HangupNotify(c))
            => /\ wrote' = wrote \cup {Head(loc[c].outq)}
               /\ \A i \in 1..Len(todo'[c]) : todo'[c][i] = "bcast"]_vars

\* A participant has hung up: the room is gone, both sides are idle and the
\* peer_disconnected for the other side is about to be written.
C13_Witness ==
    \E c \in clients :
        /\ At(c, "h3") /\ loc[c].reason = "hangup"
        /\ loc[c].otherConn \in clients \ {c}
        /\ info[c] = IdleState /\ info[loc[c].otherConn] = IdleState
        /\ loc[c].callID \notin DOMAIN rooms
        /\ Head(loc[c].outq).to = loc[c].otherConn
        /\ Head(loc[c].outq).msg.type = "peer_disconnected"

\* C14: the first hangup of a participant c for call k deletes rooms[k]; a second
\* hangup of c for k that finds the state the first one left (no room k, c idle)
\* deletes no room, finds no other side, changes no client's status or CallID and
\* prepares no peer_disconnected: deletion and notification happen at most once.
C14_SecondHangupNoOp ==
    /\ [][\A c \in Conn, k \in CallIdIn :
            (/\ k \in DOMAIN rooms
             /\ c \in {rooms[k].CallerConn, rooms[k].CalleeConn}
             /\ HangupCall(c, k))
            => k \notin DOMAIN rooms']_vars
    /\ [][\A c \in Conn, k \in CallIdIn :
            (k \notin DOMAIN rooms /\ HangupCall(c, k))
            => /\ rooms' = rooms
               /\ loc'[c].otherConn = nil
               /\ loc'[c].outq = <<>>]_vars
    /\ [][\A c \in Conn :
            (/\ At(c, "h2") /\ loc[c].reason = "hangup"
             /\ loc[c].otherConn = nil
             /\ info[c] = IdleState
             /\ HangupClients(c))
            => /\ info' = info
               /\ wrote' = wrote
               /\ \A i \in 1..Len(todo'[c]) : todo'[c][i] = "bcast"]_vars

\* c has hung up call k, its partner has been written the peer_disconnected, and
\* the second hangup of c for k has found no room.
C14_Witness ==
    \E c \in clients :
        /\ At(c, "h2") /\ loc[c].reason = "hangup"
        /\ loc[c].otherConn = nil
        /\ info[c] = IdleState
        /\ loc[c].callID \notin DOMAIN rooms
        /\ \E o \in wrote : /\ o.msg.type = "peer_disconnected"
                            /\ o.msg.reason = "hangup"
                            /\ o.msg.peerId = c
                            /\ o.msg.callId = loc[c].callID

\* C15: a hangup from a client whose status is idle deletes no room and finds no
\* other side to reset or notify, whatever callId it carries.
C15_IdleHangupNoOp ==
    [][\A c \in Conn :
          (info[c].Status = StatusIdle /\ Hangup(c))
          => /\ rooms' = rooms
             /\ loc'[c].otherConn = nil]_vars

\* C16: when y is ringing for the call k initiated by x (x is the registered
\* caller of k, in status calling) and y sends reject_call for k with reason r,
\* x and y are idle with empty CallID, the handler goes on to send x a
\* call_rejected with r, and when it has run its last section rooms has no
\* entry for k.
C16_RejectEndsCall ==
    /\ [][\A y \in Conn, x \in Conn, k \in CallIdIn, r \in ReasonIn :
            (/\ x # y /\ x \in clientsByID
             /\ info[x] = [Status |-> StatusCalling, CallID |-> k, IsCaller |-> TRUE]
             /\ \A z \in clientsByID : (info[z].CallID = k /\ info[z].IsCaller) => z = x
             /\ info[y].Status = StatusRinging /\ info[y].CallID = k
             /\ handleRejectCall(y, k, r))
            => /\ info'[x] = IdleState
               /\ info'[y] = IdleState
               /\ todo'[y] = <<"send", "rjroom", "bcast">>
               /\ loc'[y].callID = k
               /\ loc'[y].outq =
                    <<[to |-> x,
                       msg |-> [type |-> "call_rejected", callId |-> k, data |-> "",
                                callerId |-> "", reason |-> r, peerId |-> y,
                                status |-> ""]]>>]_vars
    /\ [][\A y \in Conn :
            (At(y, "rjroom") /\ RejectRoom(y))
            => /\ loc[y].callID \notin DOMAIN rooms'
               /\ \A i \in 1..Len(todo'[y]) : todo'[y][i] = "bcast"]_vars

\* The callee y has rejected the call of x: both are idle and the call_rejected
\* for x is about to be written.
C16_Witness ==
    \E y \in clients, x \in clients :
        /\ x # y
        /\ At(y, "send")
        /\ Head(loc[y].outq).to = x
        /\ Head(loc[y].outq).msg.type = "call_rejected"
        /\ Head(loc[y].outq).msg.reason \in ReasonIn
        /\ Head(loc[y].outq).msg.callId = loc[y].callID
        /\ info[x] = IdleState /\ info[y] = IdleState

C18_StrayRejectNoOp ==
    [][\A y \in Conn, k \in CallIdIn, r \in ReasonIn :
          (/\ ~ (info[y].Status = StatusRinging /\ info[y].CallID = k)
           /\ handleRejectCall(y, k, r))
          => /\ info' = info
             /\ loc'[y].outq = <<>>]_vars

\* C19: an accept_call from a client that is not ringing for the named call id
\* changes no client's state and no room, and the handler goes on to send the
\* sender an error.
C19_StrayAcceptRefused ==
    [][\A c \in Conn, k \in CallIdIn, d \in DataIn \ {""}, caller \in Conn :
          (/\ ~ (info[c].Status = StatusRinging /\ info[c].CallID = k)
           /\ handleAcceptCall(c, k, d, caller))
          => /\ info' = info
             /\ rooms' = rooms
             /\ loc'[c].outq # <<>>
             /\ Head(loc'[c].outq).to = c
             /\ Head(loc'[c].outq).msg.type = "error"]_vars

\* C20: when a ringing client sends accept_call and the named caller is not
\* registered, has another CallID or is not calling, the handler goes on to send
\* the sender an error and the sender is reset to idle with empty CallID.
C20_AcceptWithoutCallerResets ==
    [][\A c \in Conn, k \in CallIdIn, d \in DataIn \ {""}, caller \in Conn :
          (/\ info[c].Status = StatusRinging
           /\ \/ caller \notin clientsByID
              \/ info[caller].CallID # k
              \/ info[caller].Status # StatusCalling
           /\ handleAcceptCall(c, k, d, caller))
          => /\ Head(loc'[c].outq).to = c
             /\ Head(loc'[c].outq).msg.type = "error"
             /\ info'[c].Status = StatusIdle
             /\ info'[c].CallID = ""]_vars

\* C21: once an accept_call for call k has succeeded (the caller x of rooms[k] is
\* in-call with CallID k, or has left the registry), a further accept_call for k
\* naming x, from any client and with any data, fails: the handler goes on to send
\* its sender an error, no client's state changes, and rooms is unchanged, so that
\* rooms[k] stays the one room of k with the participants the first acceptance set.
C21_SecondAcceptFails ==
    [][\A c \in Conn, x \in Conn, k \in CallIdIn, d \in DataIn \ {""} :
          (/\ k \in DOMAIN rooms /\ rooms[k].CallerConn = x
           /\ rooms[k].CalleeConn \in rooms[k].Participants
           /\ \/ x \notin clientsByID
              \/ info[x].Status = StatusInCall /\ info[x].CallID = k
           /\ handleAcceptCall(c, k, d, x))
          => /\ info' = info
             /\ rooms' = rooms
             /\ todo'[c] = <<"send">>
             /\ Len(loc'[c].outq) = 1
             /\ Head(loc'[c].outq).to = c
             /\ Head(loc'[c].outq).msg.type = "error"
             /\ Head(loc'[c].outq).msg.callId = k]_vars

\* The call k of x has been accepted by y (both are in-call, rooms[k] holds them)
\* and the accept_call of a third client c for k has been refused: the error for c
\* is about to be written.
C21_Witness ==
    \E c \in clients, k \in DOMAIN rooms :
        LET x == rooms[k].CallerConn
            y == rooms[k].CalleeConn
        IN /\ c \notin {x, y} /\ x # y
           /\ info[x] = [Status |-> StatusInCall, CallID |-> k, IsCaller |-> TRUE]
           /\ info[y] = [Status |-> StatusInCall, CallID |-> k, IsCaller |-> FALSE]
           /\ At(c, "send")
           /\ Head(loc[c].outq) =
                 [to |-> c,
                  msg |-> ErrorMsg("Call not found or caller not in 'calling' state.", k)]

\* x and y are registered and in-call with each other under call id k.
InCallWith(x, y, k) ==
    /\ x # y /\ x \in clients /\ y \in clients
    /\ info[x].Status = StatusInCall /\ info[y].Status = StatusInCall
    /\ info[x].CallID = k /\ info[y].CallID = k

\* C22: an ice-candidate with data d that x sends for its call k while x and y are
\* in-call with each other is taken on by the handler with k and d unchanged, the
\* room lookup picks y and nobody else as the recipient, and the message is written
\* once, to y, whatever the other clients have sent before (messages that name the
\* same call id included).
C22_IceReachesPeer ==
    /\ [][\A x \in Conn, y \in Conn, k \in CallIdIn, d \in DataIn \ {""} :
            (InCallWith(x, y, k) /\ handleICECandidate(x, k, d))
            => /\ todo'[x] = <<"ice1">>
               /\ loc'[x].callID = k
               /\ Head(loc'[x].outq).msg =
                     [type |-> "ice-candidate", callId |-> k, data |-> d, callerId |-> "",
                      reason |-> "", peerId |-> x, status |-> ""]]_vars
    /\ [][\A x \in Conn, y \in Conn :
            (/\ At(x, "ice1") /\ InCallWith(x, y, loc[x].callID)
             /\ IceRoute(x))
            => /\ todo'[x] = <<"send">>
               /\ loc'[x].outq = <<[to |-> y, msg |-> Head(loc[x].outq).msg]>>]_vars
    /\ [][\A x \in Conn :
            (/\ At(x, "send") /\ Head(loc[x].outq).msg.type = "ice-candidate"
             /\ alive[Head(loc[x].outq).to]
             /\ Send(x))
            => /\ wrote' = wrote \cup {Head(loc[x].outq)}
               /\ todo'[x] = <<>>]_vars

\* C23: an ice-candidate whose callId differs from the sender's CallID ends at the
\* first check, and one that names no existing room, or a room of which the sender
\* is neither CallerConn nor CalleeConn, ends at the room lookup: the handler has
\* no step left and no message to send, nothing is written to any client, and no
\* client, registry entry or room changes at either step.
C23_StrayIceDropped ==
    /\ [][\A x \in Conn, k \in CallIdIn, d \in DataIn \ {""} :
            handleICECandidate(x, k, d)
            => /\ UNCHANGED <<info, rooms, clients, clientsByID, wrote, pending, alive>>
               /\ info[x].CallID # k => todo'[x] = <<>> /\ loc'[x] = NoLoc]_vars
    /\ [][\A x \in Conn :
            (/\ At(x, "ice1")
             /\ \/ loc[x].callID \notin DOMAIN rooms
                \/ x \notin {rooms[loc[x].callID].CallerConn, rooms[loc[x].callID].CalleeConn}
             /\ IceRoute(x))
            => /\ UNCHANGED <<info, rooms, clients, clientsByID, wrote, pending, alive>>
               /\ todo'[x] = <<>> /\ loc'[x] = NoLoc]_vars

\* x has sent an ice-candidate for the call id it holds, and the room of that id
\* has other clients as CallerConn and CalleeConn: the lookup is about to drop it.
C23_Witness ==
    \E x \in clients :
        /\ At(x, "ice1")
        /\ info[x].CallID = loc[x].callID
        /\ loc[x].callID \in DOMAIN rooms
        /\ x \notin {rooms[loc[x].callID].CallerConn, rooms[loc[x].callID].CalleeConn}
        /\ Head(loc[x].outq).msg.type = "ice-candidate"

\* C24: an initiate_call from a client x that is not idle changes the state of no
\* client, creates or replaces no room, starts no offer and leaves the registry
\* lock free; the handler goes on to send x, and nobody else, the error.
C24_BusyCallerRefused ==
    [][\A x \in Conn, k \in {""} \cup ClientCallIds, d \in DataIn :
          (info[x].Status # StatusIdle /\ handleInitiateCall(x, k, d))
          => /\ info' = info
             /\ rooms' = rooms
             /\ pending' = pending
             /\ clientsMuHeld' = clientsMuHeld
             /\ todo'[x] = <<"send">>
             /\ loc'[x].outq =
                  <<[to |-> x,
                     msg |-> [type |-> "error", callId |-> k, data |-> "Already in a call",
                              callerId |-> "", reason |-> "", peerId |-> "",
                              status |-> ""]]>>]_vars

\* The client x of a call has asked for another call: the error for x is about to
\* be written, and x and its partner are as they were.
C24_Witness ==
    \E x \in clients, y \in clients :
        /\ x # y
        /\ info[x].Status = StatusCalling /\ info[y].Status = StatusRinging
        /\ info[x].CallID = info[y].CallID
        /\ info[x].CallID \in DOMAIN rooms
        /\ At(x, "send")
        /\ Head(loc[x].outq).to = x
        /\ Head(loc[x].outq).msg.data = "Already in a call"

\* C25: an initiate_call with empty data from an idle client x changes no client
\* and no room, the handler goes on to send x an error, and the registry lock is
\* free afterwards, so that the messages that follow are handled.
C25_EmptyOfferRefused ==
    [][\A x \in Conn, k \in {""} \cup ClientCallIds :
          (info[x].Status = StatusIdle /\ handleInitiateCall(x, k, ""))
          => /\ info' = info
             /\ rooms' = rooms
             /\ pending' = pending
             /\ todo'[x] = <<"send">>
             /\ Head(loc'[x].outq).to = x
             /\ Head(loc'[x].outq).msg.type = "error"
             /\ ~clientsMuHeld']_vars

\* C26: an initiate_call leaves every room that exists as it is: it never replaces
\* the entry of a call id that is in rooms, whoever chose the id.
C26_RoomNeverReplaced ==
    [][\A x \in Conn, k \in {""} \cup ClientCallIds, d \in DataIn :
          handleInitiateCall(x, k, d)
          => \A id \in DOMAIN rooms : id \in DOMAIN rooms' /\ rooms'[id] = rooms[id]]_vars

\* The register of x is handled: x is idle and the handler goes on to send x the
\* register_success that carries the identifier of x, then to broadcast.
C27_RegisterReplies ==
    \A x \in Conn :
        (x \in clients /\ Register(x))
        => /\ info'[x].Status = StatusIdle
           /\ todo'[x] = <<"send", "bcast">>
           /\ loc'[x].outq =
                <<[to |-> x,
                   msg |-> [type |-> "register_success", callId |-> "", data |-> "",
                            callerId |-> "", reason |-> "", peerId |-> x, status |-> ""]]>>

\* The register_success is written to x (its transport is open, clientsMu is not
\* left locked) and broadcastPeerList takes its snapshot: the snapshot is addressed
\* to every registered client and lists x with one of the statuses of S.
C27_PresenceLists(S) ==
    \A x \in Conn :
        (/\ At(x, "send") /\ Head(loc[x].outq).msg.type = "register_success"
         /\ alive[x] /\ ~clientsMuHeld
         /\ Send(x))
        => /\ todo'[x] = <<>>
           /\ \A y \in clients' : y \in conns'
           /\ \E p \in peers' : p.ID = x /\ p.Status \in S

C28_HangupReadsPresentEntry ==
    /\ ~crashed
    /\ \A c \in Conn : At(c, "h3") => loc[c].otherConn \in clients

\* The `go sendMessage` goroutines, and the handler goroutines, whose next step is
\* conn.WriteJSON on the connection x.  sendMessage holds no lock around the
\* write, so any two of them can be inside WriteJSON on x at the same time.
GoWritersTo(x) == {o \in pending : o.to = x}

HandlerWritersTo(x) ==
    {c \in Conn : /\ At(c, "send") \/ (At(c, "h3") /\ loc[c].otherConn \in clients)
                  /\ loc[c].outq # <<>>
                  /\ Head(loc[c].outq).to = x}

\* C30: no two goroutines are at a write to the same connection at the same time.
C30_OneWriterPerConn ==
    \A x \in Conn : Cardinality(GoWritersTo(x)) + Cardinality(HandlerWritersTo(x)) <= 1

C31_TeardownAtomicWithMatching ==
    /\ [][\A x \in Conn, k \in {""} \cup ClientCallIds, d \in DataIn \ {""} :
            (handleInitiateCall(x, k, d) /\ info'[x].Status = StatusCalling)
            => /\ x \in clients /\ phase[x] = "loop"
               /\ \A y \in Conn \ {x} :
                     (info'[y].Status = StatusRinging /\ info[y].Status = StatusIdle)
                        => y \in clients /\ phase[y] = "loop"]_vars
    /\ [](\A x \in Conn :
            (~crashed /\ phase[x] = "td" /\ todo[x] = <<>>)
            => \A y \in clients : info[y].Status # StatusIdle => PeerOf(y) # x)

\* C32: an offer or an ice-candidate that a handler forwards is written to its
\* recipient only while the room of its call id exists with the sender and the
\* recipient as CallerConn and CalleeConn.
C32_ForwardOnlyInLiveRoom ==
    [][\A c \in Conn :
          (/\ At(c, "send")
           /\ Head(loc[c].outq).msg.type \in {"offer", "ice-candidate"}
           /\ alive[Head(loc[c].outq).to]
           /\ Send(c))
          => LET k == Head(loc[c].outq).msg.callId IN
             /\ k \in DOMAIN rooms
             /\ {rooms[k].CallerConn, rooms[k].CalleeConn} = {c, Head(loc[c].outq).to}]_vars

\* C37: handleOffer goes on to forward an offer only when the sender is CallerConn
\* or CalleeConn of the named room, and then to the other of the two.
C37_OfferFromParticipantOnly ==
    [][\A c \in Conn :
          (Offer(c) /\ todo'[c] # <<>>)
          => LET o == Head(loc'[c].outq)
                 k == o.msg.callId
             IN /\ k \in DOMAIN rooms
                /\ c \in {rooms[k].CallerConn, rooms[k].CalleeConn}
                /\ o.to \in {rooms[k].CallerConn, rooms[k].CalleeConn} \ {c}]_vars

\* C38: a hangup, reject_call or accept_call that carries the id k of a room of
\* which its sender z is neither CallerConn nor CalleeConn leaves rooms[k] and the
\* status and CallID of the two participants as they are and prepares no message
\* for either of them.
C38_OutsiderCannotTouchCall ==
    [][\A z \in Conn, k \in CallIdIn :
          (/\ k \in DOMAIN rooms
           /\ z \notin {rooms[k].CallerConn, rooms[k].CalleeConn}
           /\ \/ HangupCall(z, k)
              \/ \E r \in ReasonIn : handleRejectCall(z, k, r)
              \/ \E d \in DataIn \ {""}, x \in Conn : handleAcceptCall(z, k, d, x))
          => LET P == {rooms[k].CallerConn, rooms[k].CalleeConn} IN
             /\ k \in DOMAIN rooms' /\ rooms'[k] = rooms[k]
             /\ \A p \in P : info'[p] = info[p]
             /\ \A i \in 1..Len(loc'[z].outq) : loc'[z].outq[i].to \notin P]_vars

\* C39: when an ice-candidate or a peer_disconnected that results from a message
\* of the caller x of call k is written to the callee, the offer of x for k is no
\* longer waiting to be written to that callee.
C39_OfferWrittenFirst ==
    [][\A x \in Conn :
          (/\ todo[x] # <<>> /\ Head(todo[x]) \in {"send", "h3"}
           /\ loc[x].outq # <<>>
           /\ Head(loc[x].outq).msg.type \in {"ice-candidate", "peer_disconnected"}
           /\ Head(loc[x].outq).msg.peerId = x
           /\ wrote' # wrote)
          => ~ \E o \in pending :
                 /\ o.to = Head(loc[x].outq).to
                 /\ o.msg.type = "offer"
                 /\ o.msg.callerId = x
                 /\ o.msg.callId = Head(loc[x].outq).msg.callId]_vars

\* C33: in part_000 no goroutine is at the RLock of broadcastPeerList while it holds
\* clientsMu.Lock, and some goroutine that has a lock operation left can always do
\* it: the handlers return and the messages of other clients are handled.
C33_BroadcastOutsideLock ==
    /\ \A c \in Conn :
          (WantsLock(c, "clientsMu") /\ Head(todo[c]).op = "RLock")
              => ~HoldsLock(c, "clientsMu")
    /\ (\E c \in Conn : todo[c] # <<>>)
          => \E c \in Conn : todo[c] # <<>> /\ (WantsLock(c, Head(todo[c]).mu) => CanLock(c))

\* The goroutine of c has a step left and the lock the step needs is free.
idleset_CanStep(c) ==
    /\ todo[c] # <<>>
    /\ Head(todo[c]) \in {"offer2", "answer2", "join2", "hangup2", "td1"} => idleset_clientsMuFree
    /\ Head(todo[c]) = "hangup1" => idleset_roomsMuFree
    /\ Head(todo[c]) = "relay" => (idleset_clientsMuFree \/ \E r \in loc[c].rest : alive[r])

\* C35: in the idle-set server the cleanup of a disconnected client whose callID
\* names a room completes: it never arrives at the clientsMu.Lock of handleHangup
\* with clientsMu locked by itself, and while some goroutine has a step left some
\* goroutine can take its step (clientsMu and roomsMu are released again).
C35_CleanupCompletes ==
    ~crashed =>
      /\ \A c \in Conn : phase[c] = "td" => ~(At(c, "hangup2") /\ idleset_HoldsClientsMu(c))
      /\ (\E c \in Conn : todo[c] # <<>>) => \E c \in Conn : idleset_CanStep(c)

\* C40: in the idle-set server a connection is in idleClients exactly if it is
\* registered in clients with an empty callID, and the match of handleOffer never
\* puts in the room of the offer a client that is in another room.
C40_IdleIffNoCall ==
    /\ [](idleClients = {c \in clients : info[c].callID = ""})
    /\ [][\A c \in Conn, conn \in Conn :
            idleset_matchOffer(c, conn)
                => \A k \in DOMAIN rooms \ {loc[c].msg.callId} : conn \notin rooms[k].clients]_vars

\* The goroutine of c has a step left and the mutex the step locks is free.
part001_CanStep(c) ==
    /\ todo[c] # <<>>
    /\ Head(todo[c]) \in {"init2", "init3", "acc2", "hg2", "td1"} => part001_clientsMuFree
    /\ Head(todo[c]) = "hg1" => part001_roomsMuFree

\* C34: in part_001 the cleanup of a client that disconnects while calling or in a
\* call runs to its end: it never arrives at the clientsMu.Lock of
\* handleHangupInternal with clientsMu locked by itself, and while some goroutine
\* has a step left some goroutine can take its step (both locks are released).
C34_CleanupRunsToEnd ==
    /\ \A c \in Conn : phase[c] = "td" => ~(At(c, "hg2") /\ part001_HoldsClientsMu(c))
    /\ (\E c \in Conn : todo[c] # <<>>) => \E c \in Conn : part001_CanStep(c)

\* C36: in part_001 every accept_call either is the one that makes the room (no
\* room had the call id, the sender was idle, the caller was calling with the call
\* id: the room holds the two, both are in-call, nobody else changes) or changes
\* no client and no room and has call_taken or an error written to its sender; and
\* an accept_call of an idle client for a call that has a calling caller and no
\* room makes the room.
C36_OneAcceptWins ==
    [][\A c \in Conn, caller \in Conn \cup {nil} :
         part001_handleAcceptCall(c, caller) =>
            LET k == loc[c].msg.callId IN
            /\ \/ /\ k \notin DOMAIN rooms /\ info[c].Status = StatusIdle
                  /\ caller \in clientsByID \ {c}
                  /\ info[caller] = ClientInfo(StatusCalling, k, TRUE)
                  /\ rooms' = PutRoom(rooms, k, part001_Room(k, caller, c))
                  /\ info' = [info EXCEPT ![caller] = ClientInfo(StatusInCall, k, TRUE),
                                          ![c] = ClientInfo(StatusInCall, k, FALSE)]
               \/ /\ info' = info /\ rooms' = rooms
                  /\ alive[c] => \E o \in wrote' :
                        /\ o.to = c /\ o.msg.callId = k
                        /\ o.msg.type \in {"call_taken", "error"}
                        /\ o.msg.data # ""
            /\ ( /\ k \notin DOMAIN rooms /\ info[c].Status = StatusIdle
                 /\ \E x \in clientsByID : info[x] = ClientInfo(StatusCalling, k, TRUE) )
               => k \in DOMAIN rooms'
      ]_vars

\* Two idle clients have accepted one call: the first is in the room with the
\* caller and the second was told that the call is taken.
C36_Witness ==
    \E k \in DOMAIN rooms, x \in Conn, y \in Conn, z \in Conn :
        /\ rooms[k].Participants = {x, y} /\ x # y /\ z \notin {x, y}
        /\ info[x] = ClientInfo(StatusInCall, k, TRUE)
        /\ info[y] = ClientInfo(StatusInCall, k, FALSE)
        /\ info[z].Status = StatusIdle
        /\ Out(z, part001_Message("call_taken", k, "This call has already been accepted.", ""))
              \in wrote

====
